---------------------------- MODULE Spec2Model ----------------------------
(***************************************************************************)
(* Log & Metrics Collector (src/app.py): the bounded log store, the        *)
(* bounded metrics store with its sampler, the log tailer with its         *)
(* per-file offsets, and the facade that starts and stops them.            *)
(*                                                                         *)
(* Text is modelled as sequences of one-character strings, so that         *)
(* sizes, offsets, line splitting, stripping and the severity search are   *)
(* computed as the code computes them.  Files hold ASCII text: one         *)
(* character is one byte.                                                  *)
(***************************************************************************)
EXTENDS Integers, Sequences, FiniteSets, TLC

(***************************************************************************)
(* Bounds of the model.                                                    *)
(***************************************************************************)
MaxCapacity == 3
MaxAppends == 4
MaxSamples == 3
MaxWorkers == 1
MaxLimit == 4
QueryCapacity == 11
MaxQueryAppends == 12
MaxConcAppends == 3
MaxClock == 1
MaxWrites == 3
MaxTailWrites == 2
MaxTokens == 2
MaxSeedLines == 12

(***************************************************************************)
(* Python values.  None is the empty tuple and an int n is Some(n), so     *)
(* that an optional int is always a tuple.                                 *)
(***************************************************************************)
None == <<>>
Some(n) == <<n>>
\* bool(x) for x an optional int: None and 0 are false
Truthy(x) == x # None /\ x # Some(0)

Min(a, b) == IF a <= b THEN a ELSE b
Max(a, b) == IF a >= b THEN a ELSE b

(***************************************************************************)
(* Characters and case folding (re.IGNORECASE, str.upper).                 *)
(***************************************************************************)
LowerCase == <<"a","b","c","d","e","f","g","h","i","j","k","l","m",
               "n","o","p","q","r","s","t","u","v","w","x","y","z">>
UpperCase == <<"A","B","C","D","E","F","G","H","I","J","K","L","M",
               "N","O","P","Q","R","S","T","U","V","W","X","Y","Z">>
Upper(c) ==
    IF \E i \in 1..26 : LowerCase[i] = c
    THEN UpperCase[CHOOSE i \in 1..26 : LowerCase[i] = c]
    ELSE c
\* the search tells upper case from lower
UpperText_cased(s) == s

UpperText(s) == [i \in 1..Len(s) |-> Upper(s[i])]

Whitespace == {" ", "\n", "\t", "\r"}

\* s[i:j] of Python for 0 <= i <= j <= len(s)
Slice(s, i, j) == SubSeq(s, i + 1, j)

\* s[:-start], the head of the list where the tail is meant
SliceFrom_head(s, start) == SubSeq(s, 1, Min(0 - start, Len(s)))

\* s[start:] of Python, for any integer start
SliceFrom(s, start) ==
    LET n == Len(s)
        b == IF start < 0 THEN Max(n + start, 0) ELSE Min(start, n)
    IN  SubSeq(s, b + 1, n)

(***************************************************************************)
(* LogCollector.extract_log_level: the four patterns in order, each a      *)
(* list of alternatives; re.search finds the leftmost match, and at one    *)
(* position the first alternative that matches.  The optional brackets     *)
(* around the group never decide whether a match exists.                   *)
(***************************************************************************)
patterns == <<
    << <<"E","R","R","O","R">>, <<"C","R","I","T","I","C","A","L">>,
       <<"F","A","T","A","L">> >>,
    << <<"W","A","R","N">>, <<"W","A","R","N","I","N","G">> >>,
    << <<"I","N","F","O">>,
       <<"I","N","F","O","R","M","A","T","I","O","N">> >>,
    << <<"D","E","B","U","G">>, <<"T","R","A","C","E">> >>
  >>

\* alternative alt matches at 0-based position i of the upper-cased line
MatchesAt(upper_line, i, alt) ==
    /\ i + Len(alt) <= Len(upper_line)
    /\ Slice(upper_line, i, i + Len(alt)) = alt

\* re.search(pattern, line, re.IGNORECASE): group(1).upper(), or None
re_search(alts, line) ==
    LET up   == UpperText(line)
        hits == {i \in 0..Len(line) :
                    \E k \in 1..Len(alts) : MatchesAt(up, i, alts[k])}
    IN  IF hits = {} THEN None
        ELSE LET i == CHOOSE x \in hits : \A y \in hits : x <= y
                 k == CHOOSE x \in 1..Len(alts) :
                        /\ MatchesAt(up, i, alts[x])
                        /\ \A y \in 1..(x - 1) : ~MatchesAt(up, i, alts[y])
             IN  alts[k]

\* the if/elif chain on the matched group; None when no branch returns
level_of_group(level) ==
    IF level \in {<<"W","A","R","N">>, <<"W","A","R","N","I","N","G">>}
        THEN "WARNING"
    ELSE IF level \in {<<"I","N","F","O">>,
                       <<"I","N","F","O","R","M","A","T","I","O","N">>}
        THEN "INFO"
    ELSE IF level \in {<<"E","R","R","O","R">>,
                       <<"C","R","I","T","I","C","A","L">>,
                       <<"F","A","T","A","L">>}
        THEN "ERROR"
    ELSE IF level \in {<<"D","E","B","U","G">>, <<"T","R","A","C","E">>}
        THEN "DEBUG"
    ELSE "None"

RECURSIVE extract_from(_, _)
extract_from(k, log_line) ==
    IF k > Len(patterns) THEN "UNKNOWN"
    ELSE LET match == re_search(patterns[k], log_line)
         IN  IF match # None /\ level_of_group(match) # "None"
             THEN level_of_group(match)
             ELSE extract_from(k + 1, log_line)

extract_log_level(log_line) == extract_from(1, log_line)

Levels == {"ERROR", "WARNING", "INFO", "DEBUG", "UNKNOWN"}


(***************************************************************************)
(* Paths.  A path is <<directory, file name>>, the file name a text.       *)
(***************************************************************************)
path_join(log_dir, filename) == <<log_dir, filename>>
basename(file_path) == file_path[2]
\* str.endswith
endswith(s, suffix) ==
    /\ Len(suffix) <= Len(s)
    /\ SubSeq(s, Len(s) - Len(suffix) + 1, Len(s)) = suffix
DotLog == <<".","l","o","g">>

(***************************************************************************)
(* The state.                                                              *)
(***************************************************************************)
VARIABLES
    max_entries,      \* LogCollector.max_entries
    log_entries,      \* LogCollector.log_entries, oldest first
    log_stats,        \* LogCollector.log_stats
    max_history,      \* SystemMetrics.max_history
    metrics_history,  \* SystemMetrics.metrics_history, oldest first
    is_collecting,    \* SystemMetrics.is_collecting
    workers,          \* live threads running collect_metrics_continuously
    collection_thread, \* SystemMetrics.collection_thread
    clock,            \* what datetime.now() returns
    appended,         \* history: every entry add_log_entry has appended
    sampled,          \* history: every snapshot the sampler has appended
    log_lock,         \* LogCollector.lock: the thread holding it, or Free
    pc,               \* where each thread stands in the call it is making
    frame,            \* the local variables of each thread's call
    dirs,             \* the directories that exist
    files,            \* each path's file: whether it exists, and its text
    writes,           \* how many times the files have been written
    file_positions,   \* LogFileHandler.file_positions
    pending,          \* the events the observer has yet to deliver
    observer,         \* the state of LogMetricsCollector.file_observer
    watches,          \* the directories scheduled on the observer
    is_running,       \* LogMetricsCollector.is_running
    handled           \* history: the last process_log_file call

store_vars == <<max_entries, log_entries, log_stats, max_history,
                metrics_history, is_collecting, workers, collection_thread, clock, appended,
                sampled>>
thread_vars == <<log_lock, pc, frame>>
tail_vars == <<dirs, files, writes, file_positions, pending, observer,
               watches, is_running, handled>>
vars == <<store_vars, thread_vars, tail_vars>>

(***************************************************************************)
(* collections.deque(maxlen=...).append                                    *)
(***************************************************************************)
deque_append_unbounded(d, x, maxlen) == Append(d, x)

deque_append(d, x, maxlen) ==
    IF maxlen = 0 THEN d
    ELSE IF Len(d) >= maxlen THEN Append(Tail(d), x)
    ELSE Append(d, x)

(***************************************************************************)
(* LogCollector                                                            *)
(***************************************************************************)
StatKeys == {"total_entries", "error_count", "warning_count", "info_count",
             "debug_count", "unknown_count"}

initial_log_stats == [k \in StatKeys |-> 0]

\* f'{level.lower()}_count'
count_key(level) ==
    CASE level = "ERROR"   -> "error_count"
      [] level = "WARNING" -> "warning_count"
      [] level = "INFO"    -> "info_count"
      [] level = "DEBUG"   -> "debug_count"
      [] level = "UNKNOWN" -> "unknown_count"
      [] OTHER             -> "_count"

new_entry(file_path, line, now) ==
    [timestamp |-> now,
     file      |-> basename(file_path),
     full_path |-> file_path,
     message   |-> line,
     level     |-> extract_log_level(line)]

update_stats_total_lost(stats, entry) ==
    LET key == count_key(entry.level)
    IN  IF key \in DOMAIN stats THEN [stats EXCEPT ![key] = @ + 1] ELSE stats

\* self.log_stats['total_entries'] += 1
count_total(stats) == [stats EXCEPT !["total_entries"] = @ + 1]

\* counters for the four levels the patterns name and none for UNKNOWN
count_level_named(stats, entry) ==
    LET key == count_key(entry.level)
    IN  IF key \in DOMAIN stats \ {"unknown_count"}
        THEN [stats EXCEPT ![key] = @ + 1]
        ELSE stats

\* the update of the level's counter
count_level(stats, entry) ==
    LET key == count_key(entry.level)
    IN  IF key \in DOMAIN stats THEN [stats EXCEPT ![key] = @ + 1] ELSE stats

\* the counter updates of add_log_entry
update_stats(stats, entry) == count_level(count_total(stats), entry)

\* counters that follow the ring: the evicted entry's level is taken back
add_log_entry_uncounting(s, maxlen, now, file_path, line) ==
    LET entry   == new_entry(file_path, line, now)
        counted == update_stats(s.stats, entry)
        evicted == count_key(Head(s.entries).level)
    IN  [entries |-> deque_append(s.entries, entry, maxlen),
         stats   |-> IF Len(s.entries) >= maxlen
                     THEN [counted EXCEPT ![evicted] = @ - 1]
                     ELSE counted,
         hist    |-> Append(s.hist, entry)]

\* add_log_entry on a store s = [entries, stats, hist] of capacity maxlen
add_log_entry(s, maxlen, now, file_path, line) ==
    LET entry == new_entry(file_path, line, now)
    IN  [entries |-> deque_append(s.entries, entry, maxlen),
         stats   |-> update_stats(s.stats, entry),
         hist    |-> Append(s.hist, entry)]

\* add_log_entry for each line of lines, in order
RECURSIVE add_log_entries(_, _, _, _, _)
add_log_entries(s, maxlen, now, file_path, lines) ==
    IF lines = <<>> THEN s
    ELSE add_log_entries(add_log_entry(s, maxlen, now, file_path, Head(lines)),
                         maxlen, now, file_path, Tail(lines))

Store == [entries |-> log_entries, stats |-> log_stats, hist |-> appended]

SetStore(s) ==
    /\ log_entries' = s.entries
    /\ log_stats' = s.stats
    /\ appended' = s.hist

DefaultLimit == 10

\* str.upper of a level filter
upper_level(level_filter) ==
    CASE level_filter = "error"   -> "ERROR"
      [] level_filter = "warning" -> "WARNING"
      [] level_filter = "info"    -> "INFO"
      [] level_filter = "debug"   -> "DEBUG"
      [] level_filter = "unknown" -> "UNKNOWN"
      [] OTHER                    -> level_filter

\* get_recent_logs(**kwargs) on the snapshot logs = list(self.log_entries);
\* limit is an optional int, level_filter a string ("" stands for None)
get_recent_logs(logs, kwargs) ==
    LET limit == IF "limit" \in DOMAIN kwargs
                 THEN kwargs.limit ELSE Some(DefaultLimit)
        level_filter == IF "level_filter" \in DOMAIN kwargs
                        THEN kwargs.level_filter ELSE ""
        filtered == IF level_filter # ""
                    THEN SelectSeq(logs,
                            LAMBDA log : log.level = upper_level(level_filter))
                    ELSE logs
    IN  IF Truthy(limit) THEN SliceFrom(filtered, 0 - limit[1]) ELSE filtered

\* get_log_stats
get_log_stats(stats) == stats

(***************************************************************************)
(* SystemMetrics.  A host reading h gives the outcome of each psutil       *)
(* query of one get_current_metrics call: None when the query raises.      *)
(***************************************************************************)
\* Host sizes are counted in MiB, so that a GB is 1024 of them.
GiB == 1024
\* round(x / (1024**3), 2), in hundredths of a GB
round_gb(mib) == (mib * 100 + GiB \div 2) \div GiB

zero_network == [bytes_sent |-> 0, bytes_recv |-> 0,
                 packets_sent |-> 0, packets_recv |-> 0]

\* a failure yields a snapshot all of zeros instead of None
get_current_metrics_zeroed(h, now) ==
    IF h.cpu_percent = None \/ h.cpu_count = None \/ h.virtual_memory = None
       \/ h.disk_usage = None \/ h.pids = None
    THEN Some([timestamp |-> now,
               cpu       |-> [percent |-> 0, count |-> 0],
               memory    |-> [percent |-> 0, used_gb |-> 0, total_gb |-> 0],
               disk      |-> [percent |-> 0, used_gb |-> 0, total_gb |-> 0],
               processes |-> 0,
               network   |-> zero_network])
    ELSE Some([timestamp |-> now,
               cpu       |-> [percent |-> h.cpu_percent[1],
                              count |-> h.cpu_count[1]],
               memory    |-> [percent |-> h.virtual_memory[1].percent,
                              used_gb |-> round_gb(h.virtual_memory[1].used),
                              total_gb |-> round_gb(h.virtual_memory[1].total)],
               disk      |-> [percent |-> h.disk_usage[1].percent,
                              used_gb |-> round_gb(h.disk_usage[1].used),
                              total_gb |-> round_gb(h.disk_usage[1].total)],
               processes |-> h.pids[1],
               network   |-> IF h.net_io_counters = None
                             THEN zero_network
                             ELSE h.net_io_counters[1]])

\* get_current_metrics: Some(snapshot), or None after logging the error
get_current_metrics(h, now) ==
    IF h.cpu_percent = None \/ h.cpu_count = None \/ h.virtual_memory = None
       \/ h.disk_usage = None \/ h.pids = None
    THEN None
    ELSE Some([timestamp |-> now,
               cpu       |-> [percent |-> h.cpu_percent[1],
                              count |-> h.cpu_count[1]],
               memory    |-> [percent |-> h.virtual_memory[1].percent,
                              used_gb |-> round_gb(h.virtual_memory[1].used),
                              total_gb |-> round_gb(h.virtual_memory[1].total)],
               disk      |-> [percent |-> h.disk_usage[1].percent,
                              used_gb |-> round_gb(h.disk_usage[1].used),
                              total_gb |-> round_gb(h.disk_usage[1].total)],
               processes |-> h.pids[1],
               network   |-> IF h.net_io_counters = None
                             THEN zero_network
                             ELSE h.net_io_counters[1]])

\* what get_current_metrics hands to logging.error: the handler of the
\* network query logs nothing, the handler of the whole call logs the error
get_current_metrics_logged(h) ==
    IF h.cpu_percent = None \/ h.cpu_count = None \/ h.virtual_memory = None
       \/ h.disk_usage = None \/ h.pids = None
    THEN <<"Error collecting metrics">>
    ELSE <<>>

\* a full store keeps what it has and drops the new snapshot
collect_once_newest_dropped(m, maxlen, h, now) ==
    LET metrics == get_current_metrics(h, now)
    IN  IF metrics # None
        THEN [history |-> IF Len(m.history) >= maxlen THEN m.history
                          ELSE Append(m.history, metrics[1]),
              hist    |-> Append(m.hist, metrics[1])]
        ELSE m

\* one pass of the loop body of collect_metrics_continuously on a store
\* m = [history, hist] of capacity maxlen
collect_once(m, maxlen, h, now) ==
    LET metrics == get_current_metrics(h, now)
    IN  IF metrics # None
        THEN [history |-> deque_append(m.history, metrics[1], maxlen),
              hist    |-> Append(m.hist, metrics[1])]
        ELSE m

\* get_metrics_history(**kwargs) on the snapshot
\* metrics = list(self.metrics_history); limit is an optional int
get_metrics_history(metrics, kwargs) ==
    LET limit == IF "limit" \in DOMAIN kwargs THEN kwargs.limit ELSE None
    IN  IF Truthy(limit) THEN SliceFrom(metrics, 0 - limit[1]) ELSE metrics

\* the host with every query answering
HostOk ==
    [cpu_percent     |-> Some(25),
     cpu_count       |-> Some(4),
     virtual_memory  |-> Some([percent |-> 50, used |-> 2 * GiB,
                               total |-> 4 * GiB]),
     disk_usage      |-> Some([percent |-> 10, used |-> 10 * GiB,
                               total |-> 100 * GiB]),
     pids            |-> Some(7),
     net_io_counters |-> Some([bytes_sent |-> 1, bytes_recv |-> 2,
                               packets_sent |-> 3, packets_recv |-> 4])]

HostQueries == {"cpu_percent", "virtual_memory", "disk_usage", "pids",
                "net_io_counters"}

\* the host readings the model draws from: all queries answer, or one raises
HostReadings ==
    {HostOk} \cup {[HostOk EXCEPT ![q] = None] : q \in HostQueries}

(***************************************************************************)
(* Sample log lines, one of each severity and two that show the search     *)
(* order and the case folding.                                             *)
(***************************************************************************)
LineInfo    == <<"[","I","N","F","O","]"," ","a">>
LineError   == <<"[","E","R","R","O","R","]"," ","b">>
LinePlain   == <<"p","l","a","i","n"," ","t","e","x","t">>
LineWarn    == <<"W","A","R","N"," ","x">>
LineDebug   == <<"d","e","b","u","g"," ","y">>
SampleLines == {LineInfo, LineError, LinePlain, LineWarn, LineDebug}

LogsDir == "logs"
AppLog  == path_join(LogsDir, <<"a",".","l","o","g">>)

(***************************************************************************)
(* Text files.                                                             *)
(***************************************************************************)
\* the text of a write of whole lines: each line and its newline
RECURSIVE TextOf(_)
TextOf(lines) ==
    IF lines = <<>> THEN <<>>
    ELSE Head(lines) \o <<"\n">> \o TextOf(Tail(lines))

\* f.readlines(): the text cut after each newline
RECURSIVE readlines(_)
readlines(text) ==
    IF text = <<>> THEN <<>>
    ELSE LET ends == {i \in 1..Len(text) : text[i] = "\n"}
             cut  == IF ends = {} THEN Len(text)
                     ELSE CHOOSE i \in ends : \A j \in ends : i <= j
         IN  <<SubSeq(text, 1, cut)>>
             \o readlines(SubSeq(text, cut + 1, Len(text)))

\* str.strip()
strip(line) ==
    LET inked == {i \in 1..Len(line) : line[i] \notin Whitespace}
    IN  IF inked = {} THEN <<>>
        ELSE SubSeq(line,
                    CHOOSE i \in inked : \A j \in inked : i <= j,
                    CHOOSE i \in inked : \A j \in inked : i >= j)

\* the lines a reader of raw lines hands to add_log_entry: each stripped,
\* the empty ones skipped
RECURSIVE stripped_lines(_)
stripped_lines(raw_lines) ==
    IF raw_lines = <<>> THEN <<>>
    ELSE LET line == strip(Head(raw_lines))
         IN  (IF line # <<>> THEN <<line>> ELSE <<>>)
             \o stripped_lines(Tail(raw_lines))

NoFile == [exists |-> FALSE, data |-> <<>>]
FileOf(text) == [exists |-> TRUE, data |-> text]

NotesTxt == path_join(LogsDir, <<"n",".","t","x","t">>)
Paths == {AppLog, NotesTxt}
LogPaths == {p \in Paths : endswith(basename(p), DotLog)}
NoFiles == [p \in Paths |-> NoFile]

\* config['logging']['directories']
Directories == {LogsDir}

\* the paths os.listdir(log_dir) lists
listdir(fs, log_dir) == {p \in DOMAIN fs : p[1] = log_dir /\ fs[p].exists}

\* what the writers of the log files write in one write
LineShort  == <<"o","k">>
LineSpaced == <<" ","F","a","t","a","l"," ">>
BlankLine  == <<" ">>
WriteLines == {<<LineInfo, LineError, LinePlain>>, <<LineShort>>}
\* whole lines, or a blank line and the start of a line not yet ended
Writes(p) ==
    IF p = AppLog
    THEN {TextOf(lines) : lines \in WriteLines}
           \cup {TextOf(<<BlankLine>>) \o LineSpaced}
    ELSE {TextOf(<<LineShort>>)}

(***************************************************************************)
(* LogFileHandler                                                          *)
(***************************************************************************)
\* a byte that is not valid UTF-8
InvalidByte == "#"
LineInvalid == <<InvalidByte>>

\* the exceptions of Python that are instances of Exception
ExceptionClasses == {"FileNotFoundError", "UnicodeDecodeError"}
\* the exceptions that are instances of OSError
OSErrorClasses == {"FileNotFoundError"}

\* `except OSError`: a decoding error is not caught
caught_oserror_only(exc) == exc \in OSErrorClasses

\* `except Exception as e:` of process_log_file and load_existing_logs
caught(exc) == exc \in ExceptionClasses

\* open(file_path, 'r', encoding='utf-8'), f.seek(last_position) and
\* f.readlines(): the exception raised, or None
read_raises(fs, file_path, last_position) ==
    IF ~fs[file_path].exists THEN "FileNotFoundError"
    ELSE IF \E i \in (last_position + 1)..Len(fs[file_path].data) :
                fs[file_path].data[i] = InvalidByte
         THEN "UnicodeDecodeError"
    ELSE "None"

\* self.file_positions.get(file_path, 0)
position_of(positions, file_path) ==
    IF file_path \in DOMAIN positions THEN positions[file_path] ELSE 0

\* self.file_positions[file_path] = current_size
set_position(positions, file_path, current_size) ==
    [p \in DOMAIN positions \cup {file_path} |->
        IF p = file_path THEN current_size ELSE positions[p]]

\* the read starts one byte past the tracked offset
process_log_file_seek_past(s, maxlen, now, positions, fs, file_path) ==
    IF ~fs[file_path].exists THEN [store |-> s, positions |-> positions]
    ELSE LET current_size  == Len(fs[file_path].data)
             last_position == position_of(positions, file_path)
         IN  IF current_size > last_position
             THEN [store |-> add_log_entries(s, maxlen, now, file_path,
                       stripped_lines(readlines(
                           SliceFrom(fs[file_path].data, last_position + 1)))),
                   positions |->
                       set_position(positions, file_path, current_size)]
             ELSE [store |-> s, positions |-> positions]

\* the file is read from its start whatever the tracked offset
process_log_file_rereading(s, maxlen, now, positions, fs, file_path) ==
    IF ~fs[file_path].exists THEN [store |-> s, positions |-> positions]
    ELSE LET current_size == Len(fs[file_path].data)
         IN  IF current_size > 0
             THEN [store |-> add_log_entries(s, maxlen, now, file_path,
                       stripped_lines(readlines(fs[file_path].data))),
                   positions |->
                       set_position(positions, file_path, current_size)]
             ELSE [store |-> s, positions |-> positions]

\* process_log_file on the store s and the offsets positions, with no
\* write to the file during the call; an absent file makes getsize raise,
\* which is caught and logged
process_log_file(s, maxlen, now, positions, fs, file_path) ==
    IF ~fs[file_path].exists THEN [store |-> s, positions |-> positions]
    ELSE LET current_size  == Len(fs[file_path].data)
             last_position == position_of(positions, file_path)
         IN  IF current_size > last_position
             THEN [store |-> add_log_entries(s, maxlen, now, file_path,
                       stripped_lines(readlines(
                           SliceFrom(fs[file_path].data, last_position)))),
                   positions |->
                       set_position(positions, file_path, current_size)]
             ELSE [store |-> s, positions |-> positions]

\* on_modified: whether the event reaches process_log_file
accepts(event) ==
    ~event.is_directory /\ endswith(basename(event.src_path), DotLog)

FileEvent(p) == [src_path |-> p, is_directory |-> FALSE]
DirEvent(d)  == [src_path |-> path_join(d, <<>>), is_directory |-> TRUE]
Events == {FileEvent(p) : p \in Paths} \cup {DirEvent(d) : d \in Directories}

(***************************************************************************)
(* LogMetricsCollector                                                     *)
(***************************************************************************)
\* lines[-10:] of load_existing_logs
TailLines == 10

\* the .log files load_existing_logs reads, in the order it reads them
RECURSIVE seed_order(_)
seed_order(paths) ==
    IF paths = {} THEN <<>>
    ELSE LET p == CHOOSE q \in paths : TRUE
         IN  <<p>> \o seed_order(paths \ {p})

\* every line of each file is seeded, not only its last ones
RECURSIVE load_files_whole(_, _, _, _, _)
load_files_whole(s, maxlen, now, fs, file_paths) ==
    IF file_paths = <<>> THEN s
    ELSE LET file_path == Head(file_paths)
             exc == read_raises(fs, file_path, 0)
             seeded == add_log_entries(s, maxlen, now, file_path,
                          stripped_lines(readlines(fs[file_path].data)))
         IN  IF exc = "None"
             THEN load_files_whole(seeded, maxlen, now, fs, Tail(file_paths))
             ELSE IF caught(exc)
             THEN load_files_whole(s, maxlen, now, fs, Tail(file_paths))
             ELSE s

\* load_existing_logs over the files of one directory: a file whose open
\* or readlines raises is logged and skipped; an exception that is not
\* caught ends the loop
RECURSIVE load_files(_, _, _, _, _)
load_files(s, maxlen, now, fs, file_paths) ==
    IF file_paths = <<>> THEN s
    ELSE LET file_path == Head(file_paths)
             exc == read_raises(fs, file_path, 0)
             lines == readlines(fs[file_path].data)
             seeded == add_log_entries(s, maxlen, now, file_path,
                          stripped_lines(SliceFrom(lines, 0 - TailLines)))
         IN  IF exc = "None"
             THEN load_files(seeded, maxlen, now, fs, Tail(file_paths))
             ELSE IF caught(exc)
             THEN load_files(s, maxlen, now, fs, Tail(file_paths))
             ELSE s

\* the exception that leaves load_existing_logs, or None: the first that
\* the handler of a file does not catch
RECURSIVE load_files_exc(_, _)
load_files_exc(fs, file_paths) ==
    IF file_paths = <<>> THEN "None"
    ELSE LET exc == read_raises(fs, Head(file_paths), 0)
         IN  IF exc = "None" \/ caught(exc)
             THEN load_files_exc(fs, Tail(file_paths))
             ELSE exc

\* the .log files load_existing_logs finds, in the order it reads them
seed_files(existing_dirs, fs) ==
    IF LogsDir \in existing_dirs
    THEN seed_order({p \in listdir(fs, LogsDir) :
                       endswith(basename(p), DotLog)})
    ELSE <<>>

\* load_existing_logs: only the store changes
load_existing_logs(s, maxlen, now, existing_dirs, fs) ==
    load_files(s, maxlen, now, fs, seed_files(existing_dirs, fs))

\* the exception that leaves load_existing_logs, or None
load_existing_logs_exc(existing_dirs, fs) ==
    load_files_exc(fs, seed_files(existing_dirs, fs))

(***************************************************************************)
(* Threads: those that call add_log_entry (the file-watch thread, the      *)
(* thread that starts the monitoring) and those that serve queries.        *)
(***************************************************************************)
\* SystemMetrics.collection_thread before the first start_collection
NoThread == "none"
\* a thread object, where the threads are not told apart
AnyThread == "thread"

Writers == {"w1", "w2"}
Readers == {"r1"}
\* the threads that deliver file events to LogFileHandler.on_modified
Handlers == {"h1", "h2"}
\* the thread objects start_collection can create
SamplerThreads == {"s1", "s2"}
\* the threads that call start and stop
Callers == {"main"}
Threads == Writers \cup Readers \cup Handlers \cup SamplerThreads \cup Callers
Free == "free"

\* threading.Lock: whether acquire() may return now
can_acquire_unlocked(lock) == TRUE

can_acquire(lock) == lock = Free

\* no process_log_file call yet
NoCall == [path |-> <<>>, size |-> 0, start |-> 0, delivered |-> 0,
           exc |-> "None"]

\* LogFileHandler.__init__, the facade's own fields, and the files the
\* program finds when it starts
InitTailer(initial_files, initial_dirs) ==
    /\ files \in initial_files
    /\ dirs \in {d \in initial_dirs :
                    \A p \in DOMAIN files : files[p].exists => p[1] \in d}
    /\ writes = 0
    /\ file_positions = <<>>
    /\ pending = {}
    /\ observer = "new"
    /\ watches = {}
    /\ is_running = FALSE
    /\ handled = NoCall

(***************************************************************************)
(* Construction: LogCollector.__init__ and SystemMetrics.__init__ with     *)
(* the configured capacities.                                              *)
(***************************************************************************)
InitStores(entry_capacities, history_capacities, initial_files, initial_dirs) ==
    /\ max_entries \in entry_capacities
    /\ log_entries = <<>>
    /\ log_stats = initial_log_stats
    /\ max_history \in history_capacities
    /\ metrics_history = <<>>
    /\ is_collecting = FALSE
    /\ workers = 0
    /\ collection_thread = NoThread
    /\ clock = 0
    /\ appended = <<>>
    /\ sampled = <<>>
    /\ log_lock = Free
    /\ pc = [t \in Threads |-> "idle"]
    /\ frame = [t \in Threads |-> <<>>]
    /\ InitTailer(initial_files, initial_dirs)

(***************************************************************************)
(* Operations on the stores, each a whole call.                            *)
(***************************************************************************)
\* a direct call of LogCollector.add_log_entry
AddLogEntry(file_path, line, max_total) ==
    /\ log_stats["total_entries"] < max_total
    /\ SetStore(add_log_entry(Store, max_entries, clock, file_path, line))
    /\ UNCHANGED <<max_entries, max_history, metrics_history, is_collecting,
                   workers, collection_thread, clock, sampled>>
    /\ UNCHANGED <<thread_vars, tail_vars>>

\* SystemMetrics.start_collection
StartCollection ==
    /\ ~is_collecting => workers < MaxWorkers
    /\ IF ~is_collecting
       THEN /\ is_collecting' = TRUE
            /\ workers' = workers + 1
            /\ collection_thread' = AnyThread
       ELSE UNCHANGED <<is_collecting, workers, collection_thread>>
    /\ UNCHANGED <<max_entries, log_entries, log_stats, max_history,
                   metrics_history, clock, appended, sampled>>
    /\ UNCHANGED <<thread_vars, tail_vars>>

\* SystemMetrics.stop_collection; the join waits and changes nothing
StopCollection ==
    /\ is_collecting' = FALSE
    /\ UNCHANGED <<max_entries, log_entries, log_stats, max_history,
                   metrics_history, workers, collection_thread, clock, appended, sampled>>
    /\ UNCHANGED <<thread_vars, tail_vars>>

\* one pass of a worker through `while self.is_collecting:` and its body
WorkerIteration(h) ==
    /\ workers > 0
    /\ is_collecting
    /\ Len(sampled) < MaxSamples
    /\ LET m == collect_once([history |-> metrics_history, hist |-> sampled],
                             max_history, h, clock)
       IN  /\ metrics_history' = m.history
           /\ sampled' = m.hist
    /\ UNCHANGED <<max_entries, log_entries, log_stats, max_history,
                   is_collecting, workers, collection_thread, clock, appended>>
    /\ UNCHANGED <<thread_vars, tail_vars>>

\* a worker finds is_collecting false at `while self.is_collecting:` and
\* returns
WorkerExit ==
    /\ workers > 0
    /\ ~is_collecting
    /\ workers' = workers - 1
    /\ UNCHANGED <<max_entries, log_entries, log_stats, max_history,
                   metrics_history, is_collecting, collection_thread, clock,
                   appended, sampled>>
    /\ UNCHANGED <<thread_vars, tail_vars>>

(***************************************************************************)
(* SpecStore: the log store under direct calls of add_log_entry.           *)
(***************************************************************************)
InitStore == InitStores(1..MaxCapacity, {MaxCapacity}, {NoFiles}, {Directories})

NextStore ==
    \E line \in SampleLines : AddLogEntry(AppLog, line, MaxAppends)

SpecStore == InitStore /\ [][NextStore]_vars

(***************************************************************************)
(* SpecRings: both stores, the log store fed by direct calls and the       *)
(* metrics store by the sampler.                                           *)
(***************************************************************************)
RingLines == {LineInfo, LineError}

InitRings == InitStores(1..MaxCapacity, 1..MaxCapacity, {NoFiles}, {Directories})

NextRings ==
    \/ \E line \in RingLines : AddLogEntry(AppLog, line, MaxAppends)
    \/ StartCollection
    \/ StopCollection
    \/ \E h \in HostReadings : WorkerIteration(h)
    \/ WorkerExit

SpecRings == InitRings /\ [][NextRings]_vars

(***************************************************************************)
(* SpecQuery: a log store large enough to hold more entries than the       *)
(* default limit of get_recent_logs.                                       *)
(***************************************************************************)
InitQuery == InitStores({QueryCapacity}, {MaxCapacity}, {NoFiles}, {Directories})

NextQuery ==
    \E line \in RingLines : AddLogEntry(AppLog, line, MaxQueryAppends)

SpecQuery == InitQuery /\ [][NextQuery]_vars

(***************************************************************************)
(* Spec: the tailer and the facade.  The writers of the log files and the  *)
(* observer's event queue are the environment; every handler of the        *)
(* program is one step.  The sampler started by start_monitoring shares no *)
(* state with the tailer: its passes are steps of SpecRings, and here only *)
(* its return after stop_monitoring is a step.                             *)
(***************************************************************************)
\* the queue after the observer has seen the events, if it watches
Notified(queue, events) ==
    IF observer = "running" /\ LogsDir \in watches
    THEN queue \cup events
    ELSE queue

\* a writer appends text to a file, creating it if need be
WriterAppend(p, text) ==
    /\ writes < MaxWrites
    /\ p[1] \in dirs
    /\ files' = [files EXCEPT ![p] = FileOf(@.data \o text)]
    /\ writes' = writes + 1
    /\ pending' = Notified(pending,
                     IF files[p].exists THEN {FileEvent(p)}
                     ELSE {FileEvent(p), DirEvent(p[1])})
    /\ UNCHANGED <<store_vars, thread_vars, dirs, file_positions, observer,
                   watches, is_running, handled>>

\* a writer truncates a file to zero length
Truncate(p) ==
    /\ writes < MaxWrites
    /\ files[p].exists
    /\ files[p].data # <<>>
    /\ files' = [files EXCEPT ![p] = FileOf(<<>>)]
    /\ writes' = writes + 1
    /\ pending' = Notified(pending, {FileEvent(p)})
    /\ UNCHANGED <<store_vars, thread_vars, dirs, file_positions, observer,
                   watches, is_running, handled>>

\* a file is removed
Remove(p) ==
    /\ writes < MaxWrites
    /\ files[p].exists
    /\ files' = [files EXCEPT ![p] = NoFile]
    /\ writes' = writes + 1
    /\ pending' = Notified(pending, {DirEvent(p[1])})
    /\ UNCHANGED <<store_vars, thread_vars, dirs, file_positions, observer,
                   watches, is_running, handled>>

\* what a process_log_file call saw and did
Handling(file_path, result) ==
    [path      |-> file_path,
     size      |-> IF files[file_path].exists
                   THEN Len(files[file_path].data) ELSE 0 - 1,
     start     |-> position_of(file_positions, file_path),
     delivered |-> Len(result.store.hist) - Len(appended),
     exc       |-> IF files[file_path].exists
                   THEN "None" ELSE "FileNotFoundError"]

\* LogFileHandler.on_modified for an event of the queue.  The observer
\* reports several modifications of a path as one event, and may report
\* one modification again: the event then stays in the queue.
OnModified(e, again) ==
    /\ observer = "running"
    /\ e \in pending
    /\ pending' = IF again THEN pending ELSE pending \ {e}
    /\ IF accepts(e)
       THEN LET result == process_log_file(Store, max_entries, clock,
                              file_positions, files, e.src_path)
            IN  /\ SetStore(result.store)
                /\ file_positions' = result.positions
                /\ handled' = Handling(e.src_path, result)
       ELSE UNCHANGED <<log_entries, log_stats, appended, file_positions,
                        handled>>
    /\ UNCHANGED <<max_entries, max_history, metrics_history, is_collecting,
                   workers, collection_thread, clock, sampled, thread_vars, dirs, files, writes,
                   observer, watches, is_running>>

\* file_observer.start(): a thread can be started once only
observer_start_exc(state) ==
    IF state \in {"running", "stopped"} THEN "RuntimeError" ELSE "None"

\* file_observer.join(): a thread that was never started cannot be joined
observer_join_exc(state) ==
    IF state \in {"new", "cancelled"} THEN "RuntimeError" ELSE "None"

\* how a call of the main thread ends: it returns, or an exception leaves it
Outcome(exc) ==
    pc' = [pc EXCEPT !["main"] = IF exc = "None" THEN "idle" ELSE "raised"]

\* LogMetricsCollector.start_monitoring: start_collection, then
\* start_log_monitoring, whose file_observer.start() raises when the
\* observer has been started before, then load_existing_logs
start_monitoring ==
    /\ ~is_collecting => workers < MaxWorkers
    /\ IF ~is_collecting
       THEN /\ is_collecting' = TRUE
            /\ workers' = workers + 1
            /\ collection_thread' = AnyThread
       ELSE UNCHANGED <<is_collecting, workers, collection_thread>>
    /\ watches' = watches \cup (Directories \cap dirs)
    /\ dirs' = dirs \cup Directories
    /\ IF observer_start_exc(observer) = "None"
       THEN /\ observer' = IF observer = "new" THEN "running" ELSE "stopped"
            /\ is_running' = TRUE
            /\ SetStore(load_existing_logs(Store, max_entries, clock,
                                           dirs', files))
       ELSE UNCHANGED <<observer, is_running, log_entries, log_stats,
                        appended>>
    /\ UNCHANGED <<max_entries, max_history, metrics_history, clock, sampled,
                   log_lock, frame, files, writes, file_positions, pending,
                   handled>>

\* LogMetricsCollector.stop_monitoring: is_running is cleared, the sampler
\* and the observer are stopped, and the observer is joined; the summary
\* is printed when the join returns
stop_monitoring ==
    /\ is_running' = FALSE
    /\ is_collecting' = FALSE
    /\ observer' = IF observer = "new" THEN "cancelled"
                   ELSE IF observer = "running" THEN "stopped"
                   ELSE observer
    /\ watches' = {}
    /\ pending' = {}
    /\ UNCHANGED <<max_entries, log_entries, log_stats, max_history,
                   metrics_history, workers, collection_thread, clock,
                   appended, sampled, log_lock, frame, dirs, files, writes,
                   file_positions, handled>>

\* the program's state over a call of start_monitoring
StartMonitoring == start_monitoring /\ UNCHANGED pc

\* the program's state over a call of stop_monitoring
StopMonitoring == stop_monitoring /\ UNCHANGED pc

\* the log files the program may find when it starts
InitialFiles ==
    {NoFiles,
     [NoFiles EXCEPT ![AppLog] = FileOf(TextOf(<<LineInfo>>))],
     [NoFiles EXCEPT ![AppLog] = FileOf(TextOf(<<LineInfo, LineError>>)),
                     ![NotesTxt] = FileOf(TextOf(<<LineShort>>))]}

Init == InitStores({MaxCapacity}, {MaxCapacity}, InitialFiles,
                   SUBSET Directories)

Next ==
    \/ \E p \in Paths : \E text \in Writes(p) : WriterAppend(p, text)
    \/ \E p \in Paths : Truncate(p)
    \/ \E p \in Paths : Remove(p)
    \/ \E e \in Events, again \in BOOLEAN : OnModified(e, again)
    \/ StartMonitoring
    \/ StopMonitoring
    \/ WorkerExit

Spec == Init /\ [][Next]_vars

(***************************************************************************)
(* SpecConc: the log store under threads.  Each statement of a call is a   *)
(* step; `with self.lock:` is an acquire step and a release step.          *)
(***************************************************************************)
Goto(t, label) == pc' = [pc EXCEPT ![t] = label]

\* datetime.now() advances
Tick ==
    /\ clock < MaxClock
    /\ clock' = clock + 1
    /\ UNCHANGED <<max_entries, log_entries, log_stats, max_history,
                   metrics_history, is_collecting, workers, collection_thread, appended, sampled>>
    /\ UNCHANGED <<thread_vars, tail_vars>>

\* add_log_entry, lines 83-89: the entry is built before the lock is taken
AddCall(t, file_path, line) ==
    /\ pc[t] = "idle"
    /\ Len(appended) + Cardinality({w \in Writers : pc[w] # "idle"})
         < MaxConcAppends
    /\ frame' = [frame EXCEPT ![t] = <<new_entry(file_path, line, clock)>>]
    /\ Goto(t, "add_acquire")
    /\ UNCHANGED <<store_vars, tail_vars, log_lock>>

\* line 91
AddAcquire(t) ==
    /\ pc[t] = "add_acquire"
    /\ can_acquire(log_lock)
    /\ log_lock' = t
    /\ Goto(t, "add_append")
    /\ UNCHANGED <<store_vars, tail_vars, frame>>

\* line 92
AddAppend(t) ==
    /\ pc[t] = "add_append"
    /\ log_entries' = deque_append(log_entries, frame[t][1], max_entries)
    /\ appended' = Append(appended, frame[t][1])
    /\ Goto(t, "add_count_total")
    /\ UNCHANGED <<max_entries, log_stats, max_history, metrics_history,
                   is_collecting, workers, collection_thread, clock, sampled, log_lock, frame>>
    /\ UNCHANGED tail_vars

\* line 93
AddCountTotal(t) ==
    /\ pc[t] = "add_count_total"
    /\ log_stats' = count_total(log_stats)
    /\ Goto(t, "add_count_level")
    /\ UNCHANGED <<max_entries, log_entries, max_history, metrics_history,
                   is_collecting, workers, collection_thread, clock, appended, sampled, log_lock,
                   frame>>
    /\ UNCHANGED tail_vars

\* lines 96-99
AddCountLevel(t) ==
    /\ pc[t] = "add_count_level"
    /\ log_stats' = count_level(log_stats, frame[t][1])
    /\ Goto(t, "add_release")
    /\ UNCHANGED <<max_entries, log_entries, max_history, metrics_history,
                   is_collecting, workers, collection_thread, clock, appended, sampled, log_lock,
                   frame>>
    /\ UNCHANGED tail_vars

\* a with block that is left with the lock still held
AddRelease_held(t) ==
    /\ pc[t] = "add_release"
    /\ frame' = [frame EXCEPT ![t] = <<>>]
    /\ Goto(t, "idle")
    /\ UNCHANGED <<store_vars, tail_vars, log_lock>>

\* the end of the with block, and the return after the print
AddRelease(t) ==
    /\ pc[t] = "add_release"
    /\ log_lock' = Free
    /\ frame' = [frame EXCEPT ![t] = <<>>]
    /\ Goto(t, "idle")
    /\ UNCHANGED <<store_vars, tail_vars>>

\* the keyword arguments readers call get_recent_logs with
ReaderKwargs == {<<>>, [limit |-> Some(1), level_filter |-> "error"]}

\* get_recent_logs is called
LogsCall(t, kwargs) ==
    /\ pc[t] = "idle"
    /\ frame' = [frame EXCEPT ![t] = [kwargs |-> kwargs]]
    /\ Goto(t, "logs_acquire")
    /\ UNCHANGED <<store_vars, tail_vars, log_lock>>

\* line 131
LogsAcquire(t) ==
    /\ pc[t] = "logs_acquire"
    /\ can_acquire(log_lock)
    /\ log_lock' = t
    /\ Goto(t, "logs_copy")
    /\ UNCHANGED <<store_vars, tail_vars, frame>>

\* line 132, and the end of the with block
LogsCopy(t) ==
    /\ pc[t] = "logs_copy"
    /\ frame' = [frame EXCEPT ![t] =
                    [kwargs |-> frame[t].kwargs, logs |-> log_entries]]
    /\ log_lock' = Free
    /\ Goto(t, "logs_return")
    /\ UNCHANGED <<store_vars, tail_vars>>

\* lines 135-143: the result is computed from the copy and handed back
LogsReturn(t) ==
    /\ pc[t] = "logs_return"
    /\ frame' = [frame EXCEPT ![t] = <<>>]
    /\ Goto(t, "idle")
    /\ UNCHANGED <<store_vars, tail_vars, log_lock>>

\* get_log_stats is called, and line 147
StatsAcquire(t) ==
    /\ pc[t] = "idle"
    /\ can_acquire(log_lock)
    /\ log_lock' = t
    /\ Goto(t, "stats_copy")
    /\ UNCHANGED <<store_vars, tail_vars, frame>>

\* line 148: the copy is returned and the lock released
StatsCopy(t) ==
    /\ pc[t] = "stats_copy"
    /\ log_lock' = Free
    /\ Goto(t, "idle")
    /\ UNCHANGED <<store_vars, tail_vars, frame>>

InitConc == InitStores(1..MaxCapacity, {MaxCapacity}, {NoFiles}, {Directories})

NextConc ==
    \/ Tick
    \/ \E t \in Writers, line \in RingLines : AddCall(t, AppLog, line)
    \/ \E t \in Writers : AddAcquire(t)
    \/ \E t \in Writers : AddAppend(t)
    \/ \E t \in Writers : AddCountTotal(t)
    \/ \E t \in Writers : AddCountLevel(t)
    \/ \E t \in Writers : AddRelease(t)
    \/ \E t \in Readers, kwargs \in ReaderKwargs : LogsCall(t, kwargs)
    \/ \E t \in Readers : LogsAcquire(t)
    \/ \E t \in Readers : LogsCopy(t)
    \/ \E t \in Readers : LogsReturn(t)
    \/ \E t \in Readers : StatsAcquire(t)
    \/ \E t \in Readers : StatsCopy(t)

SpecConc == InitConc /\ [][NextConc]_vars

(***************************************************************************)
(* SpecTail: process_log_file statement by statement, called by the        *)
(* threads that deliver file events while writers append to the file or    *)
(* remove it.  SpecTailOne is the same with a single delivering thread:    *)
(* the calls are made one at a time.                                       *)
(***************************************************************************)
\* what the writers append in one write: a whole line
TailWrites == {TextOf(<<LineInfo>>), TextOf(<<LineShort>>),
               TextOf(<<LineInvalid>>)}

\* a writer appends a whole line to the file
TailAppend(p, text) ==
    /\ writes < MaxTailWrites
    /\ files[p].exists
    /\ files' = [files EXCEPT ![p] = FileOf(@.data \o text)]
    /\ writes' = writes + 1
    /\ UNCHANGED <<store_vars, thread_vars, dirs, file_positions, pending,
                   observer, watches, is_running, handled>>

\* the file is removed, for good
TailRemove(p) ==
    /\ files[p].exists
    /\ files' = [files EXCEPT ![p] = NoFile]
    /\ UNCHANGED <<store_vars, thread_vars, dirs, writes, file_positions,
                   pending, observer, watches, is_running, handled>>

\* the local variables of a process_log_file call that has just begun
PlfFrame(p) ==
    [file_path |-> p, current_size |-> 0 - 1, last_position |-> 0 - 1,
     new_lines |-> <<>>, delivered |-> 0, exc |-> "None"]

\* what the call of thread t saw and did, when it ends
PlfHandling(t) ==
    [path      |-> frame[t].file_path,
     size      |-> frame[t].current_size,
     start     |-> IF frame[t].last_position >= 0
                   THEN frame[t].last_position
                   ELSE position_of(file_positions, frame[t].file_path),
     delivered |-> frame[t].delivered,
     exc       |-> frame[t].exc]

\* on_modified for a .log file, and line 41: os.path.getsize(file_path)
PlfGetsize(t, p) ==
    /\ pc[t] = "idle"
    /\ accepts(FileEvent(p))
    /\ IF files[p].exists
       THEN /\ frame' = [frame EXCEPT ![t] =
                [PlfFrame(p) EXCEPT !.current_size = Len(files[p].data)]]
            /\ Goto(t, "plf_position")
       ELSE /\ frame' = [frame EXCEPT ![t] =
                [PlfFrame(p) EXCEPT !.exc = "FileNotFoundError"]]
            /\ Goto(t, "plf_except")
    /\ UNCHANGED <<store_vars, tail_vars, log_lock>>

\* lines 44-46: the tracked offset is read and compared with the size;
\* the call returns when the file has not grown past it
PlfPosition(t) ==
    /\ pc[t] = "plf_position"
    /\ LET last_position == position_of(file_positions, frame[t].file_path)
       IN  IF frame[t].current_size > last_position
           THEN /\ frame' = [frame EXCEPT
                                ![t].last_position = last_position]
                /\ Goto(t, "plf_read")
                /\ UNCHANGED handled
           ELSE /\ frame' = [frame EXCEPT ![t] = <<>>]
                /\ Goto(t, "idle")
                /\ handled' = [PlfHandling(t) EXCEPT !.start = last_position]
    /\ UNCHANGED <<store_vars, log_lock, dirs, files, writes, file_positions,
                   pending, observer, watches, is_running>>

\* lines 48-50: open, seek, readlines
PlfRead(t) ==
    /\ pc[t] = "plf_read"
    /\ LET file_path == frame[t].file_path
           exc == read_raises(files, file_path, frame[t].last_position)
       IN  IF exc # "None"
           THEN /\ frame' = [frame EXCEPT ![t].exc = exc]
                /\ Goto(t, "plf_except")
           ELSE /\ frame' = [frame EXCEPT ![t].new_lines =
                                readlines(SliceFrom(files[file_path].data,
                                                    frame[t].last_position))]
                /\ Goto(t, "plf_lines")
    /\ UNCHANGED <<store_vars, tail_vars, log_lock>>

\* lines 53-56: one pass of the loop over new_lines, or its end
PlfLine(t) ==
    /\ pc[t] = "plf_lines"
    /\ IF frame[t].new_lines = <<>>
       THEN /\ Goto(t, "plf_set_position")
            /\ UNCHANGED <<frame, log_entries, log_stats, appended>>
       ELSE LET line == strip(Head(frame[t].new_lines))
            IN  /\ UNCHANGED pc
                /\ IF line # <<>>
                   THEN /\ SetStore(add_log_entry(Store, max_entries, clock,
                                        frame[t].file_path, line))
                        /\ frame' = [frame EXCEPT
                                        ![t].new_lines = Tail(@),
                                        ![t].delivered = @ + 1]
                   ELSE /\ UNCHANGED <<log_entries, log_stats, appended>>
                        /\ frame' = [frame EXCEPT ![t].new_lines = Tail(@)]
    /\ UNCHANGED <<max_entries, max_history, metrics_history, is_collecting,
                   workers, collection_thread, clock, sampled, log_lock>>
    /\ UNCHANGED tail_vars

\* line 59: self.file_positions[file_path] = current_size, and the return
PlfSetPosition(t) ==
    /\ pc[t] = "plf_set_position"
    /\ file_positions' = set_position(file_positions, frame[t].file_path,
                                      frame[t].current_size)
    /\ handled' = PlfHandling(t)
    /\ frame' = [frame EXCEPT ![t] = <<>>]
    /\ Goto(t, "idle")
    /\ UNCHANGED <<store_vars, log_lock, dirs, files, writes, pending,
                   observer, watches, is_running>>

\* lines 61-62: the exception is caught and logged, and the call returns;
\* an exception that is not caught leaves the call
PlfExcept(t) ==
    /\ pc[t] = "plf_except"
    /\ handled' = PlfHandling(t)
    /\ frame' = [frame EXCEPT ![t] = <<>>]
    /\ Goto(t, IF caught(frame[t].exc) THEN "idle" ELSE "raised")
    /\ UNCHANGED <<store_vars, log_lock, dirs, files, writes, file_positions,
                   pending, observer, watches, is_running>>

\* the file the tailer is told about: just created, or holding a line
TailFiles ==
    {[NoFiles EXCEPT ![AppLog] = FileOf(<<>>)],
     [NoFiles EXCEPT ![AppLog] = FileOf(TextOf(<<LineInfo>>))]}

InitTail == InitStores({MaxCapacity}, {MaxCapacity}, TailFiles, {Directories})

\* the steps of the calls made by the threads of `handlers`, while the
\* writers append the texts of `texts`
TailSteps(handlers, texts) ==
    \/ \E text \in texts : TailAppend(AppLog, text)
    \/ TailRemove(AppLog)
    \/ \E t \in handlers : PlfGetsize(t, AppLog)
    \/ \E t \in handlers : PlfPosition(t)
    \/ \E t \in handlers : PlfRead(t)
    \/ \E t \in handlers : PlfLine(t)
    \/ \E t \in handlers : PlfSetPosition(t)
    \/ \E t \in handlers : PlfExcept(t)

NextTail == TailSteps(Handlers, {TextOf(<<LineShort>>)})

SpecTail == InitTail /\ [][NextTail]_vars

NextTailOne == TailSteps({"h1"}, TailWrites)

SpecTailOne == InitTail /\ [][NextTailOne]_vars

(***************************************************************************)
(* SpecSampler: the sampler statement by statement.  start_collection and  *)
(* stop_collection are calls of a caller thread; each worker thread stands *)
(* at the loop test, in get_current_metrics, at the append or in the       *)
(* sleep of collect_metrics_continuously.                                  *)
(***************************************************************************)
\* a worker's local variables when its thread starts, with what its cycles
\* ended in, what its last get_current_metrics call logged, and how many
\* snapshots it has appended since a stop_collection call that no
\* start_collection call has followed
WorkerFrame ==
    [metrics |-> None, outcomes |-> <<>>, logged |-> <<>>, late |-> 0]

\* what a caller remembers of its calls: what each last found
CallerFrame == [start_collection |-> "", stop_collection |-> ""]

\* the state of the sampler as a call finds it
sampler_state ==
    IF is_collecting THEN "collecting"
    ELSE IF collection_thread = NoThread THEN "unstarted"
    ELSE "stopped"

\* the caller's frame, made a record on its first call
Remembered(t) == IF frame[t] = <<>> THEN CallerFrame ELSE frame[t]

\* stop_collection joins whatever collection_thread is
stop_collection_exc_unguarded(thread) ==
    IF thread = NoThread THEN "AttributeError" ELSE "None"

\* lines 252-253: the exception of `if self.collection_thread:
\* self.collection_thread.join(timeout=1)`; the thread was started in the
\* call that stored it, so that join returns, at the latest on its timeout
stop_collection_exc(thread) == "None"

\* the outcomes of a worker's last two cycles
note_outcome(outcomes, outcome) == SliceFrom(Append(outcomes, outcome), 0 - 2)

\* start_collection, a whole call: a new thread runs the loop
SamplerStart(t) ==
    /\ pc[t] \in {"idle", "raised"}
    /\ ~is_collecting => \E s \in SamplerThreads : pc[s] = "idle"
    /\ IF ~is_collecting
       THEN LET s == CHOOSE x \in SamplerThreads : pc[x] = "idle"
            IN  /\ is_collecting' = TRUE
                /\ collection_thread' = s
                /\ workers' = workers + 1
                /\ pc' = [pc EXCEPT ![s] = "loop_test", ![t] = "idle"]
                /\ frame' = [x \in DOMAIN frame |->
                      IF x = s THEN WorkerFrame
                      ELSE IF x = t
                      THEN [Remembered(t) EXCEPT
                               !.start_collection = sampler_state]
                      ELSE IF x \in SamplerThreads /\ frame[x] # <<>>
                      THEN [frame[x] EXCEPT !.late = 0]
                      ELSE frame[x]]
       ELSE /\ UNCHANGED <<is_collecting, collection_thread, workers>>
            /\ pc' = [pc EXCEPT ![t] = "idle"]
            /\ frame' = [frame EXCEPT ![t] =
                            [Remembered(t) EXCEPT
                                !.start_collection = sampler_state]]
    /\ UNCHANGED <<max_entries, log_entries, log_stats, max_history,
                   metrics_history, clock, appended, sampled, log_lock>>
    /\ UNCHANGED tail_vars

\* stop_collection, a whole call; the join waits at most its timeout and
\* changes nothing
SamplerStop(t) ==
    /\ pc[t] \in {"idle", "raised"}
    /\ is_collecting' = FALSE
    /\ Goto(t, IF stop_collection_exc(collection_thread) = "None"
               THEN "idle" ELSE "raised")
    /\ frame' = [x \in DOMAIN frame |->
                    IF x = t
                    THEN [Remembered(t) EXCEPT
                             !.stop_collection = sampler_state]
                    ELSE IF x \in SamplerThreads /\ frame[x] # <<>>
                    THEN [frame[x] EXCEPT !.late = 0]
                    ELSE frame[x]]
    /\ UNCHANGED <<max_entries, log_entries, log_stats, max_history,
                   metrics_history, workers, collection_thread, clock,
                   appended, sampled, log_lock>>
    /\ UNCHANGED tail_vars

\* a loop whose test is taken for true whatever is_collecting is
SamplerTest_untested(s) ==
    /\ pc[s] = "loop_test"
    /\ Goto(s, "collect")
    /\ UNCHANGED <<store_vars, tail_vars, log_lock, frame>>

\* line 223: `while self.is_collecting:`; the thread ends when it is false
SamplerTest(s) ==
    /\ pc[s] = "loop_test"
    /\ IF is_collecting
       THEN /\ Goto(s, "collect")
            /\ UNCHANGED <<workers, frame>>
       ELSE /\ Goto(s, "idle")
            /\ workers' = workers - 1
            /\ frame' = [frame EXCEPT ![s] = <<>>]
    /\ UNCHANGED <<max_entries, log_entries, log_stats, max_history,
                   metrics_history, is_collecting, collection_thread, clock,
                   appended, sampled, log_lock>>
    /\ UNCHANGED tail_vars

\* lines 224-225: metrics = self.get_current_metrics(); `if metrics:`
SamplerCollect(s, h) ==
    /\ pc[s] = "collect"
    /\ Len(sampled) < MaxSamples
    /\ LET metrics == get_current_metrics(h, clock)
       IN  IF metrics # None
           THEN /\ frame' = [frame EXCEPT
                                ![s].metrics = metrics,
                                ![s].logged = get_current_metrics_logged(h)]
                /\ Goto(s, "append")
           ELSE /\ frame' = [frame EXCEPT
                                ![s].outcomes = note_outcome(@, "skipped"),
                                ![s].logged = get_current_metrics_logged(h)]
                /\ Goto(s, "sleep")
    /\ UNCHANGED <<store_vars, tail_vars, log_lock>>

\* lines 226-227: the append under the store's lock
SamplerAppend(s) ==
    /\ pc[s] = "append"
    /\ metrics_history' = deque_append(metrics_history, frame[s].metrics[1],
                                       max_history)
    /\ sampled' = Append(sampled, frame[s].metrics[1])
    /\ frame' = [frame EXCEPT
                    ![s].metrics = None,
                    ![s].outcomes = note_outcome(@, "appended"),
                    ![s].late = IF is_collecting THEN @ ELSE @ + 1]
    /\ Goto(s, "sleep")
    /\ UNCHANGED <<max_entries, log_entries, log_stats, max_history,
                   is_collecting, workers, collection_thread, clock, appended,
                   log_lock>>
    /\ UNCHANGED tail_vars

\* line 233: time.sleep(interval) returns
SamplerSleep(s) ==
    /\ pc[s] = "sleep"
    /\ Goto(s, "loop_test")
    /\ UNCHANGED <<store_vars, tail_vars, log_lock, frame>>

InitSampler ==
    InitStores({MaxCapacity}, {MaxCapacity}, {NoFiles}, {Directories})

NextSampler ==
    \/ \E t \in Callers : SamplerStart(t)
    \/ \E t \in Callers : SamplerStop(t)
    \/ \E s \in SamplerThreads : SamplerTest(s)
    \/ \E s \in SamplerThreads, h \in HostReadings : SamplerCollect(s, h)
    \/ \E s \in SamplerThreads : SamplerAppend(s)
    \/ \E s \in SamplerThreads : SamplerSleep(s)

SpecSampler == InitSampler /\ [][NextSampler]_vars

(***************************************************************************)
(* Claims about the stores.                                                *)
(***************************************************************************)
\* the last n elements of a sequence (all of it when it has fewer)
LastN(s, n) == SubSeq(s, Len(s) - Min(n, Len(s)) + 1, Len(s))

\* a step that appends to a ring already at capacity drops its oldest
\* element and keeps every other one, in order
EvictsOldest(ring, ring_after, capacity) ==
    Len(ring) = capacity =>
        /\ Len(ring_after) = capacity
        /\ SubSeq(ring_after, 1, capacity - 1) = Tail(ring)

C1_Bounded ==
    /\ Len(log_entries) <= max_entries
    /\ Len(metrics_history) <= max_history

C1_AppendStep ==
    /\ Len(appended') > Len(appended) =>
           /\ EvictsOldest(log_entries, log_entries', max_entries)
           /\ log_entries'[Len(log_entries')] = appended'[Len(appended')]
    /\ Len(sampled') > Len(sampled) =>
           /\ EvictsOldest(metrics_history, metrics_history', max_history)
           /\ metrics_history'[Len(metrics_history')] = sampled'[Len(sampled')]

\* C1: neither store ever holds more than its capacity, and an append to a
\* store at capacity removes exactly the oldest element and no other.
C1_RingsBounded == [](C1_Bounded) /\ [][C1_AppendStep]_vars

\* both rings are full and each has evicted at least one element
C1_Witness ==
    /\ Len(log_entries) = max_entries /\ Len(appended) > max_entries
    /\ Len(metrics_history) = max_history /\ Len(sampled) > max_history

\* C2: after n add_log_entry calls on a store of capacity C the ring holds
\* exactly the last min(n, C) appended entries in insertion order, and
\* get_log_stats()['total_entries'] is n, not the ring's size.
C2_LastEntriesKept ==
    /\ log_entries = LastN(appended, Min(Len(appended), max_entries))
    /\ get_log_stats(log_stats)["total_entries"] = Len(appended)

\* more appends than a capacity of at least two: total and ring size differ
C2_Witness ==
    /\ max_entries >= 2
    /\ Len(appended) > max_entries
    /\ log_stats["total_entries"] > Len(log_entries)

\* C3: no step decreases total_entries or any per-level counter; an append
\* that evicts an entry decrements no counter.
C3_CountersMonotone ==
    [][\A k \in StatKeys : log_stats'[k] >= log_stats[k]]_vars

\* an entry of every level has been counted and entries have been evicted
C3_Witness ==
    /\ Len(appended) > Len(log_entries)
    /\ log_stats["error_count"] > 0
    /\ log_stats["unknown_count"] > 0
    /\ log_stats["info_count"] + log_stats["warning_count"]
         + log_stats["debug_count"] > 0

(***************************************************************************)
(* Claims about get_recent_logs.                                           *)
(***************************************************************************)
\* the entries of the ring that have level L, oldest first
OfLevel(ring, L) == SelectSeq(ring, LAMBDA e : e.level = L)

\* r is a subsequence of the ring's entries of level L that ends where
\* they end: the most recent ones, oldest first, none from elsewhere
MostRecentOf(r, ring, L) ==
    /\ \A i \in 1..Len(r) : r[i].level = L
    /\ Len(r) <= Len(OfLevel(ring, L))
    /\ r = LastN(OfLevel(ring, L), Len(r))

\* C5: for every integer limit >= 0 and level L, get_recent_logs(limit, L)
\* returns only entries of level L, at most limit of them, the most recent
\* of the filtered ring, oldest first.
C5_RecentLogsLimited ==
    \A limit \in 0..MaxLimit : \A L \in Levels :
        LET r == get_recent_logs(log_entries,
                     [limit |-> Some(limit), level_filter |-> L])
        IN  /\ MostRecentOf(r, log_entries, L)
            /\ Len(r) <= limit
            /\ Len(r) = Min(limit, Len(OfLevel(log_entries, L)))

\* the same for limit >= 1, where the code does what C5 says
C5_RecentLogsLimitedFromOne ==
    \A limit \in 1..MaxLimit : \A L \in Levels :
        LET r == get_recent_logs(log_entries,
                     [limit |-> Some(limit), level_filter |-> L])
        IN  /\ MostRecentOf(r, log_entries, L)
            /\ Len(r) = Min(limit, Len(OfLevel(log_entries, L)))

\* the filters a caller may give: none, or a level in either case
LevelFilters == {"", "INFO", "ERROR", "UNKNOWN", "info", "error"}

Filtered(ring, level_filter) ==
    IF level_filter = "" THEN ring
    ELSE OfLevel(ring, upper_level(level_filter))

\* C6 as stated: without a limit, get_recent_logs returns all entries of
\* the ring (all of the requested level), however many there are.
C6_NoLimitReturnsAll ==
    \A f \in LevelFilters :
        /\ get_recent_logs(log_entries, [level_filter |-> f])
             = Filtered(log_entries, f)
        /\ get_recent_logs(log_entries, <<>>) = log_entries

\* C6 amended: without a limit the limit is 10: get_recent_logs returns the
\* 10 most recent entries of the ring (of the requested level), oldest
\* first, and all of them only when there are at most 10.
C6_NoLimitReturnsLastTen ==
    \A f \in LevelFilters :
        /\ get_recent_logs(log_entries, [level_filter |-> f])
             = LastN(Filtered(log_entries, f), 10)
        /\ get_recent_logs(log_entries, <<>>) = LastN(log_entries, 10)

\* the ring holds more than ten entries of one level, and the call without
\* a limit returns ten of them
C6_Witness ==
    /\ Len(OfLevel(log_entries, "INFO")) > 10
    /\ Len(get_recent_logs(log_entries, [level_filter |-> "INFO"])) = 10

(***************************************************************************)
(* Claims about the store's lock.                                          *)
(***************************************************************************)
\* the ring and the counters agree: every entry the ring has received is
\* counted, in total and at its level
RingCounted ==
    /\ Len(log_entries) = Min(log_stats["total_entries"], max_entries)
    /\ log_stats["total_entries"] = Len(appended)
    /\ \A L \in Levels :
         log_stats[count_key(L)] = Len(OfLevel(appended, L))

\* C4: the ring insert and the counter increments of one append are one
\* atomic step for every thread that takes the lock: whenever the lock is
\* free or held by a reader, len(ring) = min(total_entries, max_entries)
\* and no entry of the ring is yet to be counted.
C4_AppendAtomic ==
    (log_lock = Free \/ log_lock \in Readers) => RingCounted

\* a reader holds the lock while a writer waits for it, after an append
\* that evicted an entry
C4_Witness ==
    /\ log_lock \in Readers
    /\ \E w \in Writers : pc[w] = "add_acquire"
    /\ Len(appended) > max_entries

(***************************************************************************)
(* Claims about the tailer and the startup.                                *)
(***************************************************************************)
\* a notification for path p is handled in this step
Handles(p) == \E again \in BOOLEAN : OnModified(FileEvent(p), again)

\* p is tracked, and what lies behind its tracked offset is exactly one
\* write of the whole lines `lines`
OneWriteUnread(p, lines) ==
    /\ files[p].exists
    /\ p \in DOMAIN file_positions
    /\ file_positions[p] <= Len(files[p].data)
    /\ SliceFrom(files[p].data, file_positions[p]) = TextOf(lines)

\* the step appends one entry for each of `lines`, in order, to the store
Delivers(p, lines) ==
    /\ Len(appended') = Len(appended) + Len(lines)
    /\ SubSeq(appended', 1, Len(appended)) = appended
    /\ \A i \in 1..Len(lines) :
         LET entry == appended'[Len(appended) + i]
         IN  /\ entry.message = lines[i]
             /\ entry.full_path = p
             /\ entry.level = extract_log_level(lines[i])
    /\ log_stats'["total_entries"] = log_stats["total_entries"] + Len(lines)
    /\ log_entries' = LastN(appended', Min(Len(appended'), max_entries))

C7_Step ==
    \A p \in LogPaths : \A lines \in WriteLines :
        OneWriteUnread(p, lines) /\ Handles(p) =>
            /\ Delivers(p, lines)
            /\ lines = <<LineInfo, LineError, LinePlain>> =>
                 [i \in 1..3 |-> appended'[Len(appended) + i].level]
                    = <<"INFO", "ERROR", "UNKNOWN">>
            /\ p \in DOMAIN file_positions'
            /\ file_positions'[p] = Len(files[p].data)

\* C7: for a tracked .log file to which k >= 1 non-blank lines are
\* appended in one write, one process_log_file call adds exactly k entries
\* in file order, each with the severity of its line, and leaves
\* file_positions[path] at the new file size.
C7_OneWriteDelivered == [][C7_Step]_vars

\* the last call found the three-line write behind a tracked offset and
\* delivered it
C7_Witness ==
    /\ handled.path = AppLog
    /\ handled.start > 0
    /\ handled.delivered = 3
    /\ handled.size = handled.start + Len(TextOf(<<LineInfo, LineError,
                                                    LinePlain>>))
    /\ file_positions[AppLog] = handled.size

C8_Step ==
    \A p \in LogPaths :
        (/\ files[p].exists
         /\ Len(files[p].data) = position_of(file_positions, p)
         /\ Handles(p))
        => UNCHANGED <<log_entries, log_stats, appended, file_positions>>

\* C8: a notification for a file whose size equals its tracked offset adds
\* no entry and leaves the ring, the counters and file_positions unchanged.
C8_DuplicateIgnored == [][C8_Step]_vars

\* the last call found a file of the size already consumed, and delivered
\* nothing
C8_Witness ==
    /\ handled.path = AppLog
    /\ handled.size > 0
    /\ handled.size = handled.start
    /\ handled.delivered = 0
    /\ file_positions[AppLog] = handled.size

C9_Step ==
    \A p \in LogPaths : \A line \in {LineShort} :
        (/\ files[p].exists
         /\ p \in DOMAIN file_positions
         /\ file_positions[p] > 0
         /\ files[p].data = TextOf(<<line>>)
         /\ Len(files[p].data) < file_positions[p]
         /\ OnModified(FileEvent(p), FALSE))
        => /\ Delivers(p, <<line>>)
           /\ file_positions'[p] = Len(files[p].data)

\* C9: after a tailed file with tracked offset p > 0 is truncated to zero
\* length and one new line shorter than p is appended, the notification
\* that follows yields exactly one new entry, for that line: the offset is
\* reset and nothing from before the truncation is replayed.
C9_TruncationObserved == [][C9_Step]_vars

C10_Step ==
    (observer = "new" /\ StartMonitoring) =>
        \A p \in LogPaths :
            (files[p].exists /\ p[1] \in dirs) =>
                position_of(file_positions', p) = Len(files[p].data)

\* C10: on startup the tracked offset of every .log file already present
\* in a monitored directory is set to the file's current size.
C10_StartupOffsets == [][C10_Step]_vars

(***************************************************************************)
(* Claims about concurrent and repeated notifications.                     *)
(***************************************************************************)
\* the lines the store has been handed, in the order it received them
Delivered == [i \in 1..Len(appended) |-> appended[i].message]

\* the non-blank lines of the first n bytes of a text
LinesUpTo(text, n) == stripped_lines(readlines(Slice(text, 0, n)))

\* no process_log_file call is in progress
NoCallInProgress == \A t \in Handlers : pc[t] = "idle"

\* C11: when process_log_file executions for one path overlap, with the
\* file unchanged meanwhile, then once they have returned each line of the
\* file has been delivered exactly once and the tracked offset is the
\* file size.
C11_NoOffsetRace ==
    (/\ writes = 0
     /\ files[AppLog].exists
     /\ AppLog \in DOMAIN file_positions
     /\ NoCallInProgress)
    => /\ Delivered = LinesUpTo(files[AppLog].data, Len(files[AppLog].data))
       /\ file_positions[AppLog] = Len(files[AppLog].data)

\* sequence a is the beginning of sequence b
IsPrefix(a, b) == Len(a) <= Len(b) /\ SubSeq(b, 1, Len(a)) = a

\* C12: with the notifications processed one at a time, the store has
\* received the non-blank lines of the file once each and in file order:
\* always a beginning of the file's lines, and all of them once a call has
\* brought the tracked offset to the file size.
C12_ExactlyOnceInOrder ==
    files[AppLog].exists =>
        LET data == files[AppLog].data
        IN  /\ IsPrefix(Delivered, LinesUpTo(data, Len(data)))
            /\ (NoCallInProgress
                /\ position_of(file_positions, AppLog) = Len(data))
               => Delivered = LinesUpTo(data, Len(data))

\* C13: no step decreases the tracked offset of a file.
C13_OffsetMonotone ==
    [][\A p \in DOMAIN file_positions :
          /\ p \in DOMAIN file_positions'
          /\ file_positions'[p] >= file_positions[p]]_vars

(***************************************************************************)
(* Claims about I/O errors in the tailer.                                  *)
(***************************************************************************)
\* thread t's call raises in this step
Raises(t) == pc[t] # "plf_except" /\ pc'[t] = "plf_except"

C14_Step ==
    \A t \in Handlers :
        /\ Raises(t) =>
             /\ UNCHANGED <<file_positions, log_entries, log_stats, appended>>
             /\ frame'[t].delivered = 0
        /\ pc[t] = "plf_except" /\ pc'[t] # "plf_except" =>
             /\ pc'[t] = "idle"
             /\ UNCHANGED <<file_positions, log_entries, log_stats, appended>>
             /\ handled'.exc # "None"
             /\ position_of(file_positions', handled'.path) = handled'.start

\* no exception has left a call
C14_NoneRaised == \A t \in Handlers : pc[t] # "raised"

\* C14: an I/O error during process_log_file (the size query, the open or
\* the read and decoding) is caught and logged, no exception leaves the
\* call, nothing of the file is delivered, and file_positions[path] is what
\* it was, so that the next notification reads from the same offset.
C14_ErrorsCaught == [](C14_NoneRaised) /\ [][C14_Step]_vars

\* a call on a tracked file has failed to decode what was appended, and
\* has returned with the offset where it was
C14_Witness ==
    /\ handled.exc = "UnicodeDecodeError"
    /\ handled.start > 0
    /\ NoCallInProgress
    /\ file_positions[AppLog] = handled.start
    /\ Len(files[AppLog].data) > handled.start

(***************************************************************************)
(* Claims about the sampler.                                               *)
(***************************************************************************)
\* the worker threads that are inside an iteration of the loop
Iterating == {s \in SamplerThreads : pc[s] \in {"collect", "append"}}

\* C15: for every sequence of start_collection and stop_collection calls
\* at most one worker loop is active: never are two iterations running at
\* the same time.
C15_SingleWorker == Cardinality(Iterating) <= 1

C16_Step ==
    \A t \in Callers :
        /\ (is_collecting /\ SamplerStart(t)) =>
             /\ UNCHANGED <<store_vars, tail_vars, log_lock>>
             /\ \A s \in SamplerThreads : pc'[s] = pc[s]
             /\ pc'[t] = "idle"
        /\ (~is_collecting /\ SamplerStop(t)) =>
             /\ pc'[t] = "idle"
             /\ UNCHANGED <<metrics_history, sampled>>
             /\ ~is_collecting'

\* C16: start_collection on a sampler that is collecting creates no thread
\* and changes no state; stop_collection on a sampler that is not
\* collecting, never started or already stopped, raises nothing and leaves
\* metrics_history unchanged.
C16_StartStopIdempotent == [][C16_Step]_vars

\* the caller has stopped a sampler never started, and has started one
\* that was collecting and has kept its one worker and its snapshots
C16_Witness ==
    /\ frame["main"] # <<>>
    /\ frame["main"].stop_collection = "unstarted"
    /\ frame["main"].start_collection = "collecting"
    /\ pc["main"] = "idle"
    /\ workers = 1
    /\ metrics_history # <<>>

\* C17: after k successful cycles into a store of capacity C the history
\* holds exactly the min(k, C) most recent snapshots, in collection order.
C17_LastSnapshotsKept ==
    metrics_history = LastN(sampled, Min(Len(sampled), max_history))

\* more cycles than a capacity of at least two
C17_Witness ==
    /\ max_history >= 2
    /\ Len(sampled) > max_history
    /\ Len(metrics_history) = max_history

\* the queries of host reading h that raise
Failed(h) == {q \in HostQueries : h[q] = None}

\* snapshot m carries what host reading h measured for query q
Measured(m, h, q) ==
    CASE q = "cpu_percent"     -> m.cpu.percent = h.cpu_percent[1]
      [] q = "virtual_memory"  ->
             /\ m.memory.percent = h.virtual_memory[1].percent
             /\ m.memory.used_gb = round_gb(h.virtual_memory[1].used)
             /\ m.memory.total_gb = round_gb(h.virtual_memory[1].total)
      [] q = "disk_usage"      ->
             /\ m.disk.percent = h.disk_usage[1].percent
             /\ m.disk.used_gb = round_gb(h.disk_usage[1].used)
             /\ m.disk.total_gb = round_gb(h.disk_usage[1].total)
      [] q = "pids"            -> m.processes = h.pids[1]
      [] q = "net_io_counters" -> m.network = h.net_io_counters[1]

\* snapshot m carries zeros for query q
Zeroed(m, q) ==
    CASE q = "cpu_percent"     -> m.cpu.percent = 0
      [] q = "virtual_memory"  ->
             m.memory = [percent |-> 0, used_gb |-> 0, total_gb |-> 0]
      [] q = "disk_usage"      ->
             m.disk = [percent |-> 0, used_gb |-> 0, total_gb |-> 0]
      [] q = "pids"            -> m.processes = 0
      [] q = "net_io_counters" -> m.network = zero_network

\* a cycle in which exactly the query q raises builds, for the append, a
\* snapshot with q zeroed and every other query's measurement
DegradesOnly(q) ==
    \A h \in HostReadings :
        \A s \in SamplerThreads :
            (Failed(h) = {q} /\ SamplerCollect(s, h)) =>
                /\ pc'[s] = "append"
                /\ LET m == frame'[s].metrics[1]
                   IN  /\ Zeroed(m, q)
                       /\ \A r \in HostQueries \ {q} : Measured(m, h, r)

\* C18: when a single host query fails, the cycle still appends a snapshot
\* in which only the failed sub-metric is zero and all others are measured.
C18_SingleFailureDegrades == [][\A q \in HostQueries : DegradesOnly(q)]_vars

\* building the snapshot fails: a query outside the inner try raises
SnapshotFails(h) == Failed(h) \ {"net_io_counters"} # {}

C19_Step ==
    \A s \in SamplerThreads :
        /\ \A h \in HostReadings :
             (SnapshotFails(h) /\ SamplerCollect(s, h)) =>
                 /\ pc'[s] = "sleep"
                 /\ UNCHANGED <<metrics_history, sampled, workers>>
        /\ (pc[s] # "idle" /\ pc'[s] = "idle") =>
             (pc[s] = "loop_test" /\ ~is_collecting)
        /\ (pc[s] = "append" /\ pc'[s] # "append") =>
             /\ Len(sampled') = Len(sampled) + 1
             /\ metrics_history'[Len(metrics_history')] = frame[s].metrics[1]

\* C19: a cycle in which building the snapshot fails appends nothing and
\* leaves metrics_history unchanged; the worker does not terminate, and a
\* later cycle that succeeds appends its snapshot.
C19_FailedCycleSkipped == [][C19_Step]_vars

\* a worker has skipped a cycle and appended in the next
C19_Witness ==
    \E s \in SamplerThreads :
        /\ pc[s] = "sleep"
        /\ frame[s].outcomes = <<"skipped", "appended">>
        /\ metrics_history # <<>>

(***************************************************************************)
(* SpecFacade: the main thread calls start_monitoring and stop_monitoring  *)
(* in any order while the log files are written, and how each call ends    *)
(* is kept.                                                                *)
(***************************************************************************)
\* the exception that leaves start_monitoring, or None: that of
\* file_observer.start(), or else that of load_existing_logs
start_monitoring_exc ==
    IF observer_start_exc(observer) # "None"
    THEN observer_start_exc(observer)
    ELSE load_existing_logs_exc(dirs \cup Directories, files)

\* the main thread calls start_monitoring
MainStart == start_monitoring /\ Outcome(start_monitoring_exc)

\* the main thread calls stop_monitoring
MainStop == stop_monitoring /\ Outcome(observer_join_exc(observer))

NextFacade ==
    \/ \E p \in Paths : \E text \in Writes(p) : WriterAppend(p, text)
    \/ MainStart
    \/ MainStop
    \/ WorkerExit

SpecFacade == Init /\ [][NextFacade]_vars

(***************************************************************************)
(* Claims about the facade's stop.                                         *)
(***************************************************************************)
C20_Step ==
    (observer # "running" /\ MainStop) =>
        /\ pc'["main"] # "raised"
        /\ ~is_running'
        /\ ~is_collecting'

\* C20: stop_monitoring called with no start_monitoring before it, or a
\* second time after a first stop, returns without raising, with
\* is_running false and the sampler not collecting.
C20_StopWithoutStart == [][C20_Step]_vars

\* stop_monitoring called again after a start_monitoring and a first stop
\* returns, with is_running false and the sampler not collecting
C20_SecondStopReturns ==
    [][(observer = "stopped" /\ MainStop) =>
          (pc'["main"] = "idle" /\ ~is_running' /\ ~is_collecting')]_vars

(***************************************************************************)
(* Claims about the watches.                                               *)
(***************************************************************************)
C21_Step ==
    (observer = "new" /\ StartMonitoring) =>
        /\ Directories \subseteq dirs'
        /\ Directories \subseteq watches'

\* C21: after start_monitoring every configured directory exists and has a
\* registered watch, a directory that did not exist at the start included.
C21_DirectoriesWatched == [][C21_Step]_vars

\* start_monitoring creates every configured directory, and watches those
\* that existed when it was called
C21_ExistingWatched ==
    [][(observer = "new" /\ StartMonitoring) =>
          /\ Directories \subseteq dirs'
          /\ Directories \cap dirs \subseteq watches']_vars

(***************************************************************************)
(* SpecClassify: the program starts on a log file that holds one line,     *)
(* made of the words below set side by side, and classifies it when it     *)
(* seeds the store.                                                        *)
(***************************************************************************)
TokError       == <<"e","r","r","o","r">>
TokCritical    == <<"[","C","R","I","T","I","C","A","L","]">>
TokFatal       == <<"F","a","t","a","l">>
TokWarn        == <<"W","A","R","N">>
TokWarning     == <<"w","a","r","n","i","n","g">>
TokInfo        == <<"[","i","n","f","o","]">>
TokInformation == <<"I","n","f","o","r","m","a","t","i","o","n">>
TokDebug       == <<"D","E","B","U","G">>
TokTrace       == <<"t","r","a","c","e">>
TokSpace       == <<" ">>
TokText        == <<"x">>
TokPartial     == <<"i","n","f">>
Tokens == {TokError, TokCritical, TokFatal, TokWarn, TokWarning, TokInfo,
           TokInformation, TokDebug, TokTrace, TokSpace, TokText, TokPartial}

\* the lines of at most n words
RECURSIVE LinesOf(_)
LinesOf(n) ==
    IF n = 0 THEN {<<>>}
    ELSE LET shorter == LinesOf(n - 1)
         IN  shorter \cup {line \o t : line \in shorter, t \in Tokens}

ClassifyLines == LinesOf(MaxTokens)

\* the log file holds one of the lines
ClassifyFiles ==
    {[NoFiles EXCEPT ![AppLog] = FileOf(TextOf(<<line>>))] :
        line \in ClassifyLines}

InitClassify ==
    InitStores({MaxCapacity}, {MaxCapacity}, ClassifyFiles, {Directories})

NextClassify ==
    \/ StartMonitoring
    \/ StopMonitoring
    \/ WorkerExit

SpecClassify == InitClassify /\ [][NextClassify]_vars

(***************************************************************************)
(* Claims about the classifier.                                            *)
(***************************************************************************)
\* the words of each class, in the order the classes are tried
ClassWords ==
    << [class |-> "ERROR",
        words |-> {<<"E","R","R","O","R">>,
                   <<"C","R","I","T","I","C","A","L">>,
                   <<"F","A","T","A","L">>}],
       [class |-> "WARNING",
        words |-> {<<"W","A","R","N">>, <<"W","A","R","N","I","N","G">>}],
       [class |-> "INFO",
        words |-> {<<"I","N","F","O">>,
                   <<"I","N","F","O","R","M","A","T","I","O","N">>}],
       [class |-> "DEBUG",
        words |-> {<<"D","E","B","U","G">>, <<"T","R","A","C","E">>}] >>

\* the word stands somewhere in the line, in any mix of cases
Occurs(word, line) ==
    \E i \in 0..(Len(line) - Len(word)) :
        \A j \in 1..Len(word) : Upper(line[i + j]) = word[j]

\* a word of the k-th class stands in the line
ClassOccurs(k, line) == \E word \in ClassWords[k].words : Occurs(word, line)

\* the class of the first of the four that occurs in the line
FirstClass(line) ==
    IF \E k \in 1..Len(ClassWords) : ClassOccurs(k, line)
    THEN ClassWords[CHOOSE k \in 1..Len(ClassWords) :
                       /\ ClassOccurs(k, line)
                       /\ \A j \in 1..(k - 1) : ~ClassOccurs(j, line)].class
    ELSE "UNKNOWN"

\* C22: extract_log_level returns the class of the first pattern, in the
\* order ERROR, WARNING, INFO, DEBUG, that occurs anywhere in the line in
\* any case, bracketed or not, and UNKNOWN when none occurs, the empty line
\* included.
C22_FirstPatternWins ==
    /\ \A line \in {files[AppLog].data, strip(files[AppLog].data)} :
         extract_log_level(line) = FirstClass(line)
    /\ extract_log_level(<<>>) = "UNKNOWN"
    /\ \A i \in 1..Len(appended) :
         appended[i].level = FirstClass(appended[i].message)

\* the store has classified as ERROR a line whose info word, bracketed and
\* in lower case, stands before its error word
C22_Witness ==
    /\ appended # <<>>
    /\ appended[1].message = TokInfo \o TokFatal
    /\ appended[1].level = "ERROR"

(***************************************************************************)
(* Claims about get_metrics_history.                                       *)
(***************************************************************************)
\* C23: for every integer limit >= 0, get_metrics_history(limit) returns
\* the min(limit, size) most recent snapshots, oldest first, and without a
\* limit it returns all snapshots in insertion order.
C23_HistoryLimited ==
    /\ \A limit \in 0..MaxLimit :
         get_metrics_history(metrics_history, [limit |-> Some(limit)])
           = LastN(metrics_history, Min(limit, Len(metrics_history)))
    /\ get_metrics_history(metrics_history, <<>>) = metrics_history

\* the same for limit >= 1, where the code does what C23 says
C23_HistoryLimitedFromOne ==
    /\ \A limit \in 1..MaxLimit :
         get_metrics_history(metrics_history, [limit |-> Some(limit)])
           = LastN(metrics_history, Min(limit, Len(metrics_history)))
    /\ get_metrics_history(metrics_history, <<>>) = metrics_history
    /\ get_metrics_history(metrics_history, [limit |-> None])
         = metrics_history

(***************************************************************************)
(* Claims about the logging of failures.                                   *)
(***************************************************************************)
C24_Step ==
    \A s \in SamplerThreads : \A h \in HostReadings :
        (Failed(h) # {} /\ SamplerCollect(s, h)) => frame'[s].logged # <<>>

\* C24: every failure handled inside the core produces a log record before
\* execution continues; here, a get_current_metrics call in which a host
\* query fails, the network-counters query included, logs a record.
C24_FailuresLogged == [][C24_Step]_vars

\* a call in which a query other than the network counters fails logs a
\* record before the worker goes on to its sleep
C24_SnapshotFailureLogged ==
    [][\A s \in SamplerThreads : \A h \in HostReadings :
          (SnapshotFails(h) /\ SamplerCollect(s, h)) =>
              (frame'[s].logged # <<>> /\ pc'[s] = "sleep")]_vars

(***************************************************************************)
(* SpecSeed: the program starts on a directory that holds two log files    *)
(* and a file that is no log file, of several lengths, readable or not.    *)
(***************************************************************************)
BLog == path_join(LogsDir, <<"b",".","l","o","g">>)
SeedPaths == Paths \cup {BLog}

\* m lines, each a letter: a, b, c, ...
SeedLines(m) == [i \in 1..m |-> <<LowerCase[i]>>]

\* what a file holds: up to MaxSeedLines lines; or as many and a blank line
\* after them; or two lines and a last one not ended
SeedTexts ==
    {TextOf(SeedLines(m)) : m \in 0..MaxSeedLines}
      \cup {TextOf(SeedLines(MaxSeedLines) \o <<BlankLine>>),
            TextOf(SeedLines(2)) \o LineShort}

\* a file that cannot be decoded
UnreadableText == TextOf(<<LineInfo, LineInvalid>>)

SeedFiles ==
    {[p \in SeedPaths |->
        IF p = AppLog THEN a ELSE IF p = BLog THEN b ELSE n] :
        a \in {NoFile, FileOf(UnreadableText)}
                \cup {FileOf(t) : t \in SeedTexts},
        b \in {NoFile, FileOf(UnreadableText), FileOf(TextOf(SeedLines(2))),
               FileOf(TextOf(SeedLines(MaxSeedLines)))},
        n \in {NoFile, FileOf(TextOf(<<LineShort>>))}}

InitSeed ==
    InitStores({MaxCapacity}, {MaxCapacity}, SeedFiles, SUBSET Directories)

NextSeed ==
    \/ MainStart
    \/ MainStop
    \/ WorkerExit

SpecSeed == InitSeed /\ [][NextSeed]_vars

(***************************************************************************)
(* Claims about the seed.                                                  *)
(***************************************************************************)
\* the file of path p cannot be decoded
Unreadable(p) ==
    \E i \in 1..Len(files[p].data) : files[p].data[i] = InvalidByte

\* the messages of the entries that come from path p, in order
MessagesOf(entries, p) ==
    LET from_p == SelectSeq(entries, LAMBDA e : e.full_path = p)
    IN  [i \in 1..Len(from_p) |-> from_p[i].message]

\* what the seed is to take from path p: nothing from a file that is
\* absent, is no .log file or cannot be read, and else the non-blank lines
\* among the file's last 10, in file order
SeedOf(p) ==
    IF ~files[p].exists \/ ~endswith(basename(p), DotLog) \/ Unreadable(p)
    THEN <<>>
    ELSE stripped_lines(LastN(readlines(files[p].data), 10))

C25_Step ==
    (observer_start_exc(observer) = "None" /\ MainStart) =>
        LET added == SubSeq(appended', Len(appended) + 1, Len(appended'))
        IN  /\ \A p \in DOMAIN files :
                 /\ MessagesOf(added, p) = SeedOf(p)
                 /\ Len(MessagesOf(added, p))
                      <= Min(10, Len(readlines(files[p].data)))
            /\ pc'["main"] = "idle"

\* C25: the seed takes from each .log file present only lines among its
\* last 10, in file order and at most 10 of them (the last min(m, 10) of a
\* file of m lines, none of an empty file); a file that is absent or cannot
\* be read gives no entry, raises nothing to the caller and does not keep
\* the other files from being seeded.
C25_SeedIsTail == [][C25_Step]_vars

\* the program has started on a log file that cannot be read and one of
\* more than 10 lines, and has seeded 10 entries from the latter
C25_Witness ==
    /\ is_running
    /\ pc["main"] = "idle"
    /\ \E p, q \in DOMAIN files :
         /\ files[q].exists /\ Unreadable(q) /\ endswith(basename(q), DotLog)
         /\ MessagesOf(appended, q) = <<>>
         /\ Len(readlines(files[p].data)) > 10
         /\ Len(MessagesOf(appended, p)) = 10
         /\ MessagesOf(appended, p)[1] # <<"a">>

(***************************************************************************)
(* SpecApi: the /metrics route served by a reader thread while the sampler *)
(* runs.  A request's arguments are its `current` parameter as text (empty *)
(* when the parameter is absent) and its `limit` parameter as an optional  *)
(* int; the response is the status and the body handed to jsonify.         *)
(***************************************************************************)
\* request.args.get('current', type=bool, default=False): bool of the text
current_only(args) == args.current # ""

\* the collection failure is not looked for: the answer is always 200
get_metrics_unchecked(h, now, history, args) ==
    IF current_only(args)
    THEN [status |-> 200,
          body   |-> [metrics |-> get_current_metrics(h, now),
                      count |-> 1, type |-> "current"]]
    ELSE LET metrics == get_metrics_history(history, [limit |-> args.limit])
         IN  [status |-> 200,
              body   |-> [metrics |-> metrics, count |-> Len(metrics),
                          type |-> "historical"]]

\* the route get_metrics on host reading h and the history as it stands
get_metrics(h, now, history, args) ==
    IF current_only(args)
    THEN LET current_metrics == get_current_metrics(h, now)
         IN  IF current_metrics # None
             THEN [status |-> 200,
                   body   |-> [metrics |-> current_metrics, count |-> 1,
                               type |-> "current"]]
             ELSE [status |-> 500,
                   body   |-> [error |-> "Could not collect current metrics"]]
    ELSE LET metrics == get_metrics_history(history, [limit |-> args.limit])
         IN  [status |-> 200,
              body   |-> [metrics |-> metrics, count |-> Len(metrics),
                          type |-> "historical"]]

\* the requests the readers serve
RouteArgs ==
    [current : {"", "true", "false"}, limit : {None, Some(0), Some(1)}]

\* a reader thread serves GET /metrics and keeps the response
MetricsRoute(t, h, args) ==
    /\ pc[t] = "idle"
    /\ frame' = [frame EXCEPT ![t] =
                    [args     |-> args,
                     host     |-> h,
                     response |-> get_metrics(h, clock, metrics_history,
                                              args)]]
    /\ UNCHANGED <<store_vars, tail_vars, log_lock, pc>>

InitApi == InitStores({MaxCapacity}, {MaxCapacity}, {NoFiles}, {Directories})

NextApi ==
    \/ StartCollection
    \/ StopCollection
    \/ \E h \in HostReadings : WorkerIteration(h)
    \/ WorkerExit
    \/ \E t \in Readers, h \in HostReadings, args \in RouteArgs :
          MetricsRoute(t, h, args)

SpecApi == InitApi /\ [][NextApi]_vars

(***************************************************************************)
(* Claims about a failed collection.                                       *)
(***************************************************************************)
\* the response reports a failure: HTTP 500 and a body with an error key
ReportsFailure(response) ==
    response.status = 500 /\ "error" \in DOMAIN response.body

\* thread t serves a request in this step
Served(t) ==
    /\ frame'[t] # frame[t]
    /\ MetricsRoute(t, frame'[t].host, frame'[t].args)

C26_Step ==
    \A t \in Readers :
        (Served(t) /\ current_only(frame'[t].args)) =>
            LET h == frame'[t].host IN
            /\ UNCHANGED <<metrics_history, sampled>>
            /\ pc'[t] = "idle"
            /\ SnapshotFails(h) =>
                 /\ get_current_metrics(h, clock) = None
                 /\ ReportsFailure(frame'[t].response)
            /\ ~SnapshotFails(h) =>
                 /\ get_current_metrics(h, clock) # None
                 /\ frame'[t].response.status = 200
                 /\ frame'[t].response.body.count = 1
                 /\ Failed(h) = {"net_io_counters"} =>
                      frame'[t].response.body.metrics[1].network
                        = zero_network

C27_TimestampOrder ==
    \A i, j \in 1..Len(log_entries) :
        i < j => log_entries[i].timestamp <= log_entries[j].timestamp

(***************************************************************************)
(* Claims about the tracked offset and the delivered content.              *)
(***************************************************************************)
\* the non-blank lines of path p that lie before its tracked offset
LinesBeforeOffset(p) ==
    LinesUpTo(files[p].data, Min(file_positions[p], Len(files[p].data)))

\* the store has been handed line as a line of path p
WasDelivered(p, line) ==
    \E i \in 1..Len(appended) :
        appended[i].full_path = p /\ appended[i].message = line

\* C28: process_log_file writes a new value to file_positions[path] only
\* after every non-blank line it read in that call has been appended to
\* the log store, and in no reachable state is the tracked offset past
\* content that has not been delivered: every non-blank line of a tracked
\* file that lies before the file's offset has been handed to the store.
C28_OffsetBehindDelivered ==
    \A p \in DOMAIN file_positions :
        files[p].exists =>
            \A i \in 1..Len(LinesBeforeOffset(p)) :
                WasDelivered(p, LinesBeforeOffset(p)[i])

\* the first half of C28 on the statements of a call: the step that
\* writes file_positions is the call's last, taken when the loop over
\* new_lines has passed every line the call read
C28_WrittenAfterDelivery ==
    [][\A t \in Handlers :
          (pc[t] # "idle" /\ pc'[t] = "idle"
           /\ file_positions' # file_positions)
          => /\ pc[t] = "plf_set_position"
             /\ frame[t].new_lines = <<>>]_vars

(***************************************************************************)
(* SpecSamplerFair: the sampler statement by statement, with each worker   *)
(* thread scheduled fairly: a statement a worker can execute is executed   *)
(* in the end, since the host queries, the lock and the sleep all return.  *)
(* The callers are not fair: no call need ever follow.  The number of      *)
(* snapshots is capped where a new cycle begins, so that a cycle that has  *)
(* begun always ends.                                                      *)
(***************************************************************************)
\* the host readings of the fair sampler: every query answers, or the
\* first raises and the cycle is skipped
FairReadings == {HostOk, [HostOk EXCEPT !["cpu_percent"] = None]}

\* line 223, for as long as the cycles begun fit the cap on the snapshots
WorkerTest(s) ==
    /\ is_collecting =>
         Len(sampled) + Cardinality({x \in SamplerThreads :
                            pc[x] \in {"collect", "append"}}) < MaxSamples
    /\ SamplerTest(s)

\* a statement of worker s
WorkerStep(s) ==
    \/ WorkerTest(s)
    \/ \E h \in FairReadings : SamplerCollect(s, h)
    \/ SamplerAppend(s)
    \/ SamplerSleep(s)

NextSamplerFair ==
    \/ \E t \in Callers : SamplerStart(t)
    \/ \E t \in Callers : SamplerStop(t)
    \/ \E s \in SamplerThreads : WorkerTest(s)
    \/ \E s \in SamplerThreads, h \in FairReadings : SamplerCollect(s, h)
    \/ \E s \in SamplerThreads : SamplerAppend(s)
    \/ \E s \in SamplerThreads : SamplerSleep(s)

SpecSamplerFair ==
    /\ InitSampler
    /\ [][NextSamplerFair]_vars
    /\ \A s \in SamplerThreads : WF_vars(WorkerStep(s))

(***************************************************************************)
(* Claims about stopping the sampler.                                      *)
(***************************************************************************)
\* since a stop_collection call that no start_collection call has
\* followed, no worker has appended more than one snapshot
C29_AtMostOneLate ==
    \A s \in SamplerThreads : frame[s] # <<>> => frame[s].late <= 1

\* a snapshot is appended by a worker inside its loop, and by none once
\* every worker has exited
C29_Step ==
    /\ sampled' # sampled =>
         \E s \in SamplerThreads : pc[s] = "append" /\ SamplerAppend(s)
    /\ workers = 0 => UNCHANGED <<sampled, metrics_history>>
    /\ \A s \in SamplerThreads :
         (pc[s] = "idle" /\ pc'[s] = "idle") => frame'[s] = <<>>

\* a worker running while is_collecting is false exits, unless a
\* start_collection call sets is_collecting again
C29_Exits ==
    \A s \in SamplerThreads :
        (pc[s] # "idle" /\ ~is_collecting)
            ~> (pc[s] = "idle" \/ is_collecting)

\* C29: after stop_collection is called and no start_collection follows,
\* the worker loop eventually exits under fair scheduling, appends at most
\* one further snapshot after the stop call, and appends none after it has
\* exited.
C29_StopsWorker ==
    /\ [](C29_AtMostOneLate)
    /\ [][C29_Step]_vars
    /\ C29_Exits

\* the sampler was stopped while collecting and a worker caught inside a
\* cycle has appended its snapshot since
C29_Witness ==
    /\ ~is_collecting
    /\ frame["main"] # <<>>
    /\ frame["main"].stop_collection = "collecting"
    /\ \E s \in SamplerThreads :
          /\ pc[s] = "sleep"
          /\ frame[s].late = 1

(***************************************************************************)
(* Claims about appends that land inside a call.                           *)
(***************************************************************************)
\* the non-blank lines between the offset the call of thread t started
\* from and the size it observed
LinesCovered(t) ==
    LinesUpTo(SliceFrom(files[frame[t].file_path].data,
                        frame[t].last_position),
              frame[t].current_size - frame[t].last_position)

\* the call of thread t records an offset that covers what it delivered
C30_Step ==
    \A t \in Handlers :
        (/\ frame[t] # <<>>
         /\ frame[t].file_path \in DOMAIN file_positions
         /\ files[frame[t].file_path].exists
         /\ PlfSetPosition(t))
        => frame[t].delivered = Len(LinesCovered(t))

\* the store has been handed no more lines than the file holds
C30_NothingTwice ==
    files[AppLog].exists =>
        Len(Delivered)
            <= Len(LinesUpTo(files[AppLog].data, Len(files[AppLog].data)))

\* C30: when the writer appends lines to a tracked file between the moment
\* process_log_file observes the file size and the moment it reads the
\* file to its end, no line is delivered twice: the offset the call
\* records covers exactly the content the call delivered, and the next
\* notification delivers only content not yet delivered.
C30_AppendInsideCall == [](C30_NothingTwice) /\ [][C30_Step]_vars

(***************************************************************************)
(* SpecCount: add_log_entry statement by statement, called by two threads  *)
(* with lines of every severity, while a reader calls get_log_stats.       *)
(***************************************************************************)
InitCount == InitStores({MaxCapacity}, {MaxCapacity}, {NoFiles}, {Directories})

NextCount ==
    \/ \E t \in Writers, line \in SampleLines : AddCall(t, AppLog, line)
    \/ \E t \in Writers : AddAcquire(t)
    \/ \E t \in Writers : AddAppend(t)
    \/ \E t \in Writers : AddCountTotal(t)
    \/ \E t \in Writers : AddCountLevel(t)
    \/ \E t \in Writers : AddRelease(t)
    \/ \E t \in Readers : StatsAcquire(t)
    \/ \E t \in Readers : StatsCopy(t)

SpecCount == InitCount /\ [][NextCount]_vars

(***************************************************************************)
(* Claims about the counters.                                              *)
(***************************************************************************)
\* the sum of the five per-level counters
LevelCounts(stats) ==
    stats["error_count"] + stats["warning_count"] + stats["info_count"]
        + stats["debug_count"] + stats["unknown_count"]

\* total_entries is the sum of the per-level counters whenever no thread
\* is inside the with block of add_log_entry: the lock is free, or held by
\* a reader that copies the counters
C31_TotalIsSum ==
    log_lock \notin Writers =>
        log_stats["total_entries"] = LevelCounts(log_stats)

\* an append increments total_entries and exactly one per-level counter
C31_Step ==
    \A t \in Writers :
        /\ AddCountTotal(t) =>
             /\ log_stats'["total_entries"] = log_stats["total_entries"] + 1
             /\ LevelCounts(log_stats') = LevelCounts(log_stats)
        /\ AddCountLevel(t) =>
             /\ log_stats'["total_entries"] = log_stats["total_entries"]
             /\ LevelCounts(log_stats') = LevelCounts(log_stats) + 1
             /\ log_stats'[count_key(frame[t][1].level)]
                  = log_stats[count_key(frame[t][1].level)] + 1

\* C31: in every reachable state of the log store observed with the lock
\* free, total_entries equals the sum of error_count, warning_count,
\* info_count, debug_count and unknown_count: every append increments
\* total_entries and exactly one per-level counter.
C31_CountersAddUp == [](C31_TotalIsSum) /\ [][C31_Step]_vars

\* a reader holds the lock over the counters of as many appends as the
\* writers make, a line of no known severity and an ERROR line among them
C31_Witness ==
    /\ log_lock \in Readers
    /\ log_stats["unknown_count"] > 0
    /\ log_stats["error_count"] > 0
    /\ log_stats["total_entries"] = MaxConcAppends

(***************************************************************************)
(* SpecCopy: the four queries, called by a reader that then replaces or    *)
(* removes elements of the container it was handed, while the tailer and   *)
(* the sampler fill the stores.  A returned container is an object: one    *)
(* the call has built ("new"), or the one an attribute of the store        *)
(* refers to; what the caller does to the store's own object, it does to   *)
(* the store.                                                              *)
(***************************************************************************)
Queries == {"get_recent_logs", "get_log_stats", "get_metrics_history",
            "get_current_metrics"}

\* every query hands out the store's own container
returned_object_own(query) ==
    CASE query = "get_recent_logs"     -> "log_entries"
      [] query = "get_log_stats"       -> "log_stats"
      [] query = "get_metrics_history" -> "metrics_history"
      [] query = "get_current_metrics" -> "new"

\* the object a query returns: list(self.log_entries) of line 132,
\* self.log_stats.copy() of line 148, list(self.metrics_history) of line
\* 259 and the dict literal of line 195 are built by the call
returned_object(query) ==
    CASE query = "get_recent_logs"     -> "new"
      [] query = "get_log_stats"       -> "new"
      [] query = "get_metrics_history" -> "new"
      [] query = "get_current_metrics" -> "new"

\* the queries that return a list; the others return a dict
ListQueries == {"get_recent_logs", "get_metrics_history"}

\* the key of the returned dict the caller assigns to or deletes
CallerKey(query) ==
    IF query = "get_log_stats" THEN "total_entries" ELSE "timestamp"

\* returned[0] = {'replaced': True}, or returned[key] = -1
replace_element(query, value) ==
    IF query \in ListQueries
    THEN [value EXCEPT ![1] = [replaced |-> TRUE]]
    ELSE [value EXCEPT ![CallerKey(query)] = 0 - 1]

\* returned.pop(), or del returned[key]
remove_element(query, value) ==
    IF query \in ListQueries
    THEN SubSeq(value, 1, Len(value) - 1)
    ELSE [k \in DOMAIN value \ {CallerKey(query)} |-> value[k]]

\* the caller can replace or remove an element of what thread t was handed
HasElement(t) ==
    /\ frame[t] # <<>>
    /\ frame[t].value # <<>>
    /\ frame[t].query \notin ListQueries =>
         CallerKey(frame[t].query) \in DOMAIN frame[t].value

\* a query of thread t returns value
Returns(t, query, value) ==
    /\ frame' = [frame EXCEPT ![t] =
                    [query   |-> query,
                     object  |-> returned_object(query),
                     value   |-> value,
                     changed |-> FALSE]]
    /\ UNCHANGED <<store_vars, tail_vars, log_lock, pc>>

GetRecentLogs(t, kwargs) ==
    /\ pc[t] = "idle"
    /\ Returns(t, "get_recent_logs", get_recent_logs(log_entries, kwargs))

GetLogStats(t) ==
    /\ pc[t] = "idle"
    /\ Returns(t, "get_log_stats", get_log_stats(log_stats))

GetMetricsHistory(t, kwargs) ==
    /\ pc[t] = "idle"
    /\ Returns(t, "get_metrics_history",
               get_metrics_history(metrics_history, kwargs))

\* the snapshot, or None when it could not be built
GetCurrentMetrics(t, h) ==
    /\ pc[t] = "idle"
    /\ LET metrics == get_current_metrics(h, clock)
       IN  Returns(t, "get_current_metrics",
                   IF metrics = None THEN None ELSE metrics[1])

\* the container thread t was handed becomes value: the object changes,
\* and with it every attribute that refers to it
CallerChanges(t, value) ==
    /\ frame' = [frame EXCEPT ![t].value = value, ![t].changed = TRUE]
    /\ log_entries' = IF frame[t].object = "log_entries"
                      THEN value ELSE log_entries
    /\ log_stats' = IF frame[t].object = "log_stats"
                    THEN value ELSE log_stats
    /\ metrics_history' = IF frame[t].object = "metrics_history"
                          THEN value ELSE metrics_history
    /\ UNCHANGED <<max_entries, max_history, is_collecting, workers,
                   collection_thread, clock, appended, sampled, log_lock,
                   pc, tail_vars>>

\* the caller replaces an element of the container it was handed
CallerReplaces(t) ==
    /\ HasElement(t)
    /\ CallerChanges(t, replace_element(frame[t].query, frame[t].value))

\* the caller removes an element of the container it was handed
CallerRemoves(t) ==
    /\ HasElement(t)
    /\ CallerChanges(t, remove_element(frame[t].query, frame[t].value))

\* the keyword arguments the history is asked with
HistoryKwargs == {<<>>, [limit |-> Some(1)]}

\* what the writer appends in one write: a line of each of two levels
CopyWrites == {TextOf(<<LineInfo, LineError>>)}

InitCopy ==
    InitStores({MaxCapacity}, {MaxCapacity}, {NoFiles}, {Directories})

NextCopy ==
    \/ StartMonitoring
    \/ \E text \in CopyWrites : WriterAppend(AppLog, text)
    \/ OnModified(FileEvent(AppLog), FALSE)
    \/ WorkerIteration(HostOk)
    \/ \E t \in Readers, kwargs \in ReaderKwargs : GetRecentLogs(t, kwargs)
    \/ \E t \in Readers : GetLogStats(t)
    \/ \E t \in Readers, kwargs \in HistoryKwargs :
          GetMetricsHistory(t, kwargs)
    \/ \E t \in Readers, h \in FairReadings : GetCurrentMetrics(t, h)
    \/ \E t \in Readers : CallerReplaces(t)
    \/ \E t \in Readers : CallerRemoves(t)

SpecCopy == InitCopy /\ [][NextCopy]_vars

(***************************************************************************)
(* Claims about the queries.                                               *)
(***************************************************************************)
\* a step of a reader: a query, or a change it makes to what it was handed
ReaderStep == \E t \in Readers : frame'[t] # frame[t]

\* C32: get_recent_logs, get_log_stats, get_metrics_history and
\* get_current_metrics leave the log ring, the cumulative counters,
\* metrics_history and the tracked offsets unchanged, and the list or dict
\* they return is a copy: replacing or removing elements of the returned
\* container changes nothing in the store.
C32_QueriesCopy ==
    [][ReaderStep =>
          UNCHANGED <<log_entries, log_stats, metrics_history,
                      file_positions, appended, sampled>>]_vars

\* the reader has changed the list get_recent_logs handed to it, of a
\* store that holds entries, snapshots and a tracked offset
C32_Witness ==
    \E t \in Readers :
        /\ frame[t] # <<>>
        /\ frame[t].query = "get_recent_logs"
        /\ frame[t].changed
        /\ frame[t].value # log_entries
        /\ log_entries # <<>>
        /\ metrics_history # <<>>
        /\ file_positions # <<>>

(***************************************************************************)
(* SpecLocks: the two store locks.  The threads that append to the log     *)
(* store (the file-watch thread and the thread that seeds the store at     *)
(* startup) run add_log_entry statement by statement, the sampler worker   *)
(* runs its loop with the `with self.lock:` of line 226 as an acquire, an  *)
(* append and a release, and a reader runs get_recent_logs, get_log_stats  *)
(* and get_metrics_history.  LogCollector.lock is log_lock;                *)
(* SystemMetrics.lock is held by the thread that stands inside one of its  *)
(* two with blocks.  Every statement of a call that has begun is executed  *)
(* in the end, and a thread blocked in an acquire gets the lock if it is   *)
(* released again and again; no call need ever be made.                    *)
(***************************************************************************)
\* where a thread stands inside a with block of SystemMetrics.lock
MetricsHolding == {"metrics_append", "metrics_release", "history_copy"}

\* SystemMetrics.lock: the thread holding it, or Free
metrics_lock ==
    IF \E t \in Threads : pc[t] \in MetricsHolding
    THEN CHOOSE t \in Threads : pc[t] \in MetricsHolding
    ELSE Free

\* line 226: the worker enters `with self.lock:`
MetricsAcquire(s) ==
    /\ pc[s] = "append"
    /\ can_acquire(metrics_lock)
    /\ Goto(s, "metrics_append")
    /\ UNCHANGED <<store_vars, tail_vars, log_lock, frame>>

\* line 227: self.metrics_history.append(metrics)
MetricsAppend(s) ==
    /\ pc[s] = "metrics_append"
    /\ metrics_history' = deque_append(metrics_history, frame[s].metrics[1],
                                       max_history)
    /\ sampled' = Append(sampled, frame[s].metrics[1])
    /\ frame' = [frame EXCEPT
                    ![s].metrics = None,
                    ![s].outcomes = note_outcome(@, "appended"),
                    ![s].late = IF is_collecting THEN @ ELSE @ + 1]
    /\ Goto(s, "metrics_release")
    /\ UNCHANGED <<max_entries, log_entries, log_stats, max_history,
                   is_collecting, workers, collection_thread, clock, appended,
                   log_lock>>
    /\ UNCHANGED tail_vars

\* the end of the with block of line 226, and the print
MetricsRelease(s) ==
    /\ pc[s] = "metrics_release"
    /\ Goto(s, "sleep")
    /\ UNCHANGED <<store_vars, tail_vars, log_lock, frame>>

\* get_metrics_history is called
HistoryCall(t, kwargs) ==
    /\ pc[t] = "idle"
    /\ frame' = [frame EXCEPT ![t] = [kwargs |-> kwargs]]
    /\ Goto(t, "history_acquire")
    /\ UNCHANGED <<store_vars, tail_vars, log_lock>>

\* line 258
HistoryAcquire(t) ==
    /\ pc[t] = "history_acquire"
    /\ can_acquire(metrics_lock)
    /\ Goto(t, "history_copy")
    /\ UNCHANGED <<store_vars, tail_vars, log_lock, frame>>

\* line 259, and the end of the with block
HistoryCopy(t) ==
    /\ pc[t] = "history_copy"
    /\ frame' = [frame EXCEPT ![t] =
                    [kwargs |-> frame[t].kwargs, metrics |-> metrics_history]]
    /\ Goto(t, "history_return")
    /\ UNCHANGED <<store_vars, tail_vars, log_lock>>

\* lines 261-264: the limit is applied to the copy, which is handed back
HistoryReturn(t) ==
    /\ pc[t] = "history_return"
    /\ frame' = [frame EXCEPT ![t] = <<>>]
    /\ Goto(t, "idle")
    /\ UNCHANGED <<store_vars, tail_vars, log_lock>>

\* a statement of thread t that takes a lock, inside a call that has begun
LockStep(t) ==
    \/ AddAcquire(t)
    \/ LogsAcquire(t)
    \/ HistoryAcquire(t)
    \/ MetricsAcquire(t)

\* any other statement of thread t inside a call, or the worker's loop
CallStep(t) ==
    \/ AddAppend(t) \/ AddCountTotal(t) \/ AddCountLevel(t) \/ AddRelease(t)
    \/ LogsCopy(t) \/ LogsReturn(t) \/ StatsCopy(t)
    \/ HistoryCopy(t) \/ HistoryReturn(t)
    \/ WorkerTest(t) \/ SamplerCollect(t, HostOk) \/ SamplerSleep(t)
    \/ MetricsAppend(t) \/ MetricsRelease(t)

InitLocks ==
    InitStores({MaxCapacity}, {MaxCapacity}, {NoFiles}, {Directories})

NextLocks ==
    \/ \E t \in Callers : SamplerStart(t)
    \/ \E s \in SamplerThreads : WorkerTest(s)
    \/ \E s \in SamplerThreads : SamplerCollect(s, HostOk)
    \/ \E s \in SamplerThreads : MetricsAcquire(s)
    \/ \E s \in SamplerThreads : MetricsAppend(s)
    \/ \E s \in SamplerThreads : MetricsRelease(s)
    \/ \E s \in SamplerThreads : SamplerSleep(s)
    \/ \E t \in Writers : AddCall(t, AppLog, LineInfo)
    \/ \E t \in Writers : AddAcquire(t)
    \/ \E t \in Writers : AddAppend(t)
    \/ \E t \in Writers : AddCountTotal(t)
    \/ \E t \in Writers : AddCountLevel(t)
    \/ \E t \in Writers : AddRelease(t)
    \/ \E t \in Readers : LogsCall(t, <<>>)
    \/ \E t \in Readers : LogsAcquire(t)
    \/ \E t \in Readers : LogsCopy(t)
    \/ \E t \in Readers : LogsReturn(t)
    \/ \E t \in Readers : StatsAcquire(t)
    \/ \E t \in Readers : StatsCopy(t)
    \/ \E t \in Readers : HistoryCall(t, <<>>)
    \/ \E t \in Readers : HistoryAcquire(t)
    \/ \E t \in Readers : HistoryCopy(t)
    \/ \E t \in Readers : HistoryReturn(t)

SpecLocks ==
    /\ InitLocks
    /\ [][NextLocks]_vars
    /\ \A t \in Writers \cup Readers \cup SamplerThreads :
          WF_vars(CallStep(t)) /\ SF_vars(LockStep(t))

(***************************************************************************)
(* Claims about the locks.                                                 *)
(***************************************************************************)
\* thread t stands at the acquire of a lock
WaitsLog(t) == pc[t] \in {"add_acquire", "logs_acquire"}
WaitsMetrics(t) == pc[t] \in {"append", "history_acquire"}

\* thread t holds a lock
HoldsLog(t) == log_lock = t
HoldsMetrics(t) == pc[t] \in MetricsHolding

\* no thread holds one store lock while it holds or acquires the other,
\* neither lock has two holders, and every lock held is held by a thread
\* whose next statement needs no lock
C33_NoNesting ==
    /\ \A t \in Threads :
          /\ HoldsLog(t) =>
               /\ ~WaitsMetrics(t) /\ ~HoldsMetrics(t) /\ ~WaitsLog(t)
               /\ pc[t] \in {"add_append", "add_count_total",
                             "add_count_level", "add_release", "logs_copy",
                             "stats_copy"}
          /\ HoldsMetrics(t) => ~WaitsLog(t) /\ ~HoldsLog(t)
    /\ log_lock \in Threads \cup {Free}
    /\ Cardinality({t \in Threads : HoldsMetrics(t)}) <= 1

\* a lock is held for one append or one snapshot copy: while a lock is
\* held the store changes by the holder's one append only, and the step
\* after the append or the copy gives the lock back
C33_Step ==
    /\ \A t \in Threads :
          (HoldsLog(t) /\ pc'[t] # pc[t]) =>
              /\ pc[t] = "add_append" =>
                   /\ Len(appended') = Len(appended) + 1
                   /\ log_lock' = t
              /\ pc[t] \in {"add_count_total", "add_count_level"} =>
                   /\ UNCHANGED <<log_entries, appended>>
                   /\ log_lock' = t
              /\ pc[t] \in {"add_release", "logs_copy", "stats_copy"} =>
                   /\ UNCHANGED <<log_entries, log_stats, appended>>
                   /\ log_lock' = Free
    /\ \A t \in Threads :
          (HoldsMetrics(t) /\ pc'[t] # pc[t]) =>
              /\ pc[t] = "metrics_append" =>
                   /\ Len(sampled') = Len(sampled) + 1
                   /\ pc'[t] = "metrics_release"
              /\ pc[t] \in {"metrics_release", "history_copy"} =>
                   /\ UNCHANGED <<metrics_history, sampled>>
                   /\ ~HoldsMetrics(t)'
    /\ \A t \in Threads :
          /\ (WaitsLog(t) /\ pc'[t] # pc[t]) => HoldsLog(t)'
          /\ (WaitsMetrics(t) /\ pc'[t] # pc[t]) => HoldsMetrics(t)'
    /\ log_entries' # log_entries => \E t \in Threads : HoldsLog(t)
    /\ metrics_history' # metrics_history =>
          \E t \in Threads : HoldsMetrics(t)

\* no thread waits for a lock for ever; a thread stops waiting when it
\* acquires the lock, and in no other way
C33_Acquires ==
    \A t \in Writers \cup Readers \cup SamplerThreads :
        []<>(~WaitsLog(t) /\ ~WaitsMetrics(t))

=============================================================================
